---------------------------- MODULE Spec2Model ----------------------------
(***************************************************************************)
(* A model of mpdsync.py: the windowed statistic (AveragedList), the       *)
(* event dispatcher and replicator (main and Master), the Seeker thread    *)
(* (Seeker._syncLoop) and the seek controller.                             *)
(*                                                                         *)
(* Times are integers in microseconds (the source uses floats in seconds). *)
(***************************************************************************)
EXTENDS Integers, Sequences, FiniteSets, TLC

VARIABLES
    W,              \* SpecStat: one AveragedList object
    stack,          \* per thread: the call stack, a sequence of frames
    tstat,          \* per thread: "alive" | "dead" | "crashed" (died of an exception)
    playerState,    \* Master.state as last read by the main thread
    seeker,         \* Master.seeker: 0 (None) or a Seeker object id
    sync,           \* per Seeker object: Seeker.sync
    thread,         \* per Seeker object: Seeker.thread, 0 when not set
    locked,         \* per slave: Client.syncLoopLocked
    adjustLatency,  \* Master.adjustLatency (the -l option)
    slave,          \* SpecCtl: the Client attributes of the one slave
    ctl,            \* SpecCtl: the Seeker's position, attributes and locals
    daemon,         \* SpecCtl: the slave's daemon: its song and its offset
    maxDifference,  \* SpecTol: <<>> or the value _max_difference returned
    master,         \* SpecRepl: the master's daemon as Master.status reads it
    mpd,            \* SpecRepl: the slave's daemon: player and queue
    client,         \* SpecRepl: the slave's Client attributes
    call,           \* SpecRepl: the last call of the replicator
    song_adjustments,   \* SpecArch: Client.song_adjustments of the slave
    song_differences,   \* SpecArch: Client.song_differences of the slave
    track,          \* SpecTrack: what the daemon shows on one song, and the
                    \* number of iterations of _syncLoop on it
    proc            \* SpecMain: the process: its command line, the daemons
                    \* that answer, what main returned and the exit status

progVars == <<stack, tstat, playerState, seeker, sync, thread, locked,
              adjustLatency>>
ctlVars == <<slave, ctl, daemon>>
replVars == <<master, mpd, client, call>>
archVars == <<song_adjustments, song_differences>>
otherVars == <<maxDifference, replVars, archVars, track, proc>>
vars == <<W, stack, tstat, playerState, seeker, sync, thread, locked,
          adjustLatency, slave, ctl, daemon, otherVars>>

----------------------------------------------------------------------------
(* Bounds of the model *)

\* longest list the windowed-statistic specification builds
MaxLen == 11

\* number of slaves (followers) attached
NumSlaves == 2

\* number of thread ids (and Seeker object ids) available at once
MaxThreads == 2

\* deepest call stack: syncPlayer and syncPlaylists call each other
MaxDepth == 4

\* most samples of one song the controller specification takes
MaxSamples == 10

\* most seeks the controller specification issues
MaxAdjust == 8

\* number of songs in the playlist of the controller specification
NumSongs == 2

\* most iterations of _syncLoop the one-song specification follows
MaxIterations == 27

\* longest queue of the replicator specification
MaxQueue == 2

\* highest version the master's queue reaches in the replicator
\* specification
MaxVersion == 2

\* most samples of one song, and most seeks that succeed, in the
\* archive specification
MaxKept == 2

\* the seeks that succeeded, of which SpecBook follows the bookkeeping
MaxSeeks == 22

----------------------------------------------------------------------------
(* Program constants *)

\* self[:10] in AveragedList._updateStats
Window == 10

\* max number of adjustments to make before adjusting by ping again
MAX_ADJUSTMENTS == 5

\* max adjustment size, 0.300 s
MAX_ADJUSTMENTDoubled == 2 * 300000

MAX_ADJUSTMENT == 300000

----------------------------------------------------------------------------
(* Arithmetic helpers *)

Abs(x) == IF x < 0 THEN -x ELSE x

MinOf(a, b) == IF a < b THEN a ELSE b

MaxOf(a, b) == IF a > b THEN a ELSE b

\* float division a / b (b > 0), kept to the microsecond, symmetric in sign
Quot(a, b) == IF a >= 0 THEN a \div b ELSE -((-a) \div b)

RECURSIVE SeqSum(_)
SeqSum(s) == IF s = <<>> THEN 0 ELSE Head(s) + SeqSum(Tail(s))

SeqMax(s) == CHOOSE x \in {s[i] : i \in 1..Len(s)} :
                 \A i \in 1..Len(s) : s[i] <= x

SeqMin(s) == CHOOSE x \in {s[i] : i \in 1..Len(s)} :
                 \A i \in 1..Len(s) : s[i] >= x

\* Python's s[:n]
Prefix(s, n) == SubSeq(s, 1, MinOf(n, Len(s)))

\* Python's list.insert(pos, x) for 0 <= pos
InsertAt(s, pos, x) ==
    LET p == MinOf(pos, Len(s))
    IN  SubSeq(s, 1, p) \o <<x>> \o SubSeq(s, p + 1, Len(s))

----------------------------------------------------------------------------
(* AveragedList: the windowed statistic.  length = 0 stands for None.     *)

AveragedList(length) ==
    [items |-> <<>>, length |-> length, max |-> 0, min |-> 0, range |-> 0,
     average |-> 0, overall_average |-> 0]

\* _updateStats raises ZeroDivisionError on an empty list before it assigns
\* anything: the attributes then keep their values.
UpdateStats(l) ==
    IF l.items = <<>> THEN l
    ELSE LET first == Prefix(l.items, Window)
         IN  [l EXCEPT !.average = Quot(SeqSum(first), Len(first)),
                       !.overall_average = Quot(SeqSum(l.items), Len(l.items)),
                       !.max = SeqMax(l.items),
                       !.min = SeqMin(l.items),
                       !.range = SeqMax(first) - SeqMin(first)]

\* append does not look at self.length
ALAppend(l, x) == UpdateStats([l EXCEPT !.items = Append(l.items, x)])

\* clear pops every element and leaves the statistics as they were
ALClear(l) == [l EXCEPT !.items = <<>>]

\* extend does not look at self.length
ALExtend(l, xs) == UpdateStats([l EXCEPT !.items = l.items \o xs])

\* the pop loop of insert: drop from the end while longer than self.length
TruncateNever(s, length) == s

Truncate(s, length) ==
    IF length # 0 /\ Len(s) > length THEN SubSeq(s, 1, length) ELSE s

ALInsert(l, pos, x) ==
    UpdateStats([l EXCEPT !.items = Truncate(InsertAt(l.items, pos, x), l.length)])

\* the statistics of a list computed from its contents alone
FromScratch(l) ==
    IF l.items = <<>> THEN AveragedList(l.length)
    ELSE UpdateStats([AveragedList(l.length) EXCEPT !.items = l.items])

----------------------------------------------------------------------------
(* SpecStat: one AveragedList under its four mutating operations *)

\* the capacities the program constructs lists with: None, 10, 20
Capacities == {0, 10, 20}

\* sample values (microseconds)
SampleVals == {-3000, 2000}

ExtendArgs == {<<>>} \cup {<<x>> : x \in SampleVals}
                     \cup {<<x, y>> : x \in SampleVals, y \in SampleVals}

StatInit ==
    /\ \E n \in Capacities : W = AveragedList(n)

StatInsert ==
    /\ Len(W.items) < MaxLen
    /\ \E pos \in 0..Len(W.items), x \in SampleVals : W' = ALInsert(W, pos, x)
    /\ UNCHANGED <<progVars, ctlVars, otherVars>>

StatAppend ==
    /\ Len(W.items) < MaxLen
    /\ \E x \in SampleVals : W' = ALAppend(W, x)
    /\ UNCHANGED <<progVars, ctlVars, otherVars>>

StatExtend ==
    /\ \E xs \in ExtendArgs :
          /\ Len(W.items) + Len(xs) <= MaxLen
          /\ W' = ALExtend(W, xs)
    /\ UNCHANGED <<progVars, ctlVars, otherVars>>

StatClear ==
    /\ W' = ALClear(W)
    /\ UNCHANGED <<progVars, ctlVars, otherVars>>

----------------------------------------------------------------------------
(* The program: threads, frames, connections.  A position names the        *)
(* network calls a thread is in (or a point between calls); the step out   *)
(* of a position is the return of its calls.  What the daemons answer, and *)
(* what follows from it alone (whether a slave was synced before, whether  *)
(* its playlist is empty, whether a reseek is necessary), is an input.     *)

\* thread 0 is the main thread (event dispatcher); the others run _syncLoop
Threads == 0..MaxThreads

Controllers == 1..MaxThreads

SeekerIds == 1..MaxThreads

Slaves == 1..NumSlaves

States == {"play", "pause", "stop"}

\* a frame: the position in a routine, its slave, and (base frame of a
\* controller thread) the Seeker object whose _syncLoop the thread runs
Frame(pc, s, sk) == [pc |-> pc, s |-> s, sk |-> sk]

Top(stk) == stk[Len(stk)]

Pop(stk) == SubSeq(stk, 1, Len(stk) - 1)

Goto(stk, pc) == [stk EXCEPT ![Len(stk)].pc = pc]

GotoS(stk, pc, s) == [stk EXCEPT ![Len(stk)].pc = pc, ![Len(stk)].s = s]

Push(stk, f) == Append(stk, f)

Alive(t) == tstat[t] = "alive"

At(t, pc) == Alive(t) /\ stack[t] # <<>> /\ Top(stack[t]).pc = pc

\* the Seeker object of a controller thread (self in _syncLoop)
SeekerOf(t) == stack[t][1].sk

\* the connection a thread's routines use as self: the Master's for the
\* main thread; for a controller thread its own Seeker's, a second
\* connection to the master server
SelfConnShared(t) == <<"M", 0>>

SelfConn(t) == IF t = 0 THEN <<"M", 0>> ELSE <<"K", SeekerOf(t)>>

\* the positions inside syncPlayer's try block (lines 776-841)
SyncPlayerPcs == {"sp_begin", "sp_afterpl", "sp_cd1", "sp_play", "sp_stop",
                  "sp_pause"}

\* the innermost frame whose try/except catches an exception, 0 if none
HandlerIndex(stk) ==
    LET H == {i \in 1..Len(stk) : stk[i].pc \in SyncPlayerPcs}
    IN  IF H = {} THEN 0 ELSE CHOOSE i \in H : \A j \in H : j <= i

\* An exception raised at the top frame of thread t.  syncPlayer's except
\* clause returns False to its caller; with no handler the thread dies,
\* and when the main thread dies the process exits, which ends the daemon
\* threads.
Raised(t) ==
    LET stk == stack[t]
        h == HandlerIndex(stk)
    IN  IF h > 0
        THEN /\ stack' = [stack EXCEPT ![t] = SubSeq(stk, 1, h - 1)]
             /\ tstat' = tstat
        ELSE IF t = 0
        THEN /\ stack' = [u \in Threads |-> <<>>]
             /\ tstat' = [u \in Threads |->
                            IF u = 0 THEN "crashed"
                            ELSE IF Alive(u) THEN "dead" ELSE tstat[u]]
        ELSE /\ stack' = [stack EXCEPT ![t] = <<>>]
             /\ tstat' = [tstat EXCEPT ![t] = "crashed"]

----------------------------------------------------------------------------
(* Replicator: Master.syncPlaylists, run by the main thread and, after a   *)
(* failed seek, by a controller thread                                     *)

\* the for loop of syncPlaylists at slave s: the next checkConnection, or
\* the return to the caller
SplNext(stk, s) ==
    IF s > NumSlaves THEN Pop(stk) ELSE GotoS(stk, "spl_check", s)

\* lines 612-613: self.status(), self.getPlaylist()
syncPlaylists_status(t) ==
    /\ At(t, "spl_status")
    /\ \/ /\ \E st \in States :
                playerState' = IF t = 0 THEN st ELSE playerState
          /\ stack' = [stack EXCEPT ![t] = SplNext(@, 1)]
          /\ tstat' = tstat
       \/ /\ Raised(t)
          /\ playerState' = playerState
    /\ UNCHANGED <<W, ctlVars, otherVars, seeker, sync, thread, locked, adjustLatency>>

\* lines 620-630 and 659-663: slave.checkConnection(), raise if it cannot
\* reconnect; a slave not synced before: slave.getPlaylist() and the
\* comparison with the master's playlist
syncPlaylists_check(t) ==
    /\ At(t, "spl_check")
    /\ LET s == Top(stack[t]).s
       IN  \/ Raised(t)
           \/ /\ stack' = [stack EXCEPT ![t] = Goto(@, "spl_full")]
              /\ tstat' = tstat
           \/ /\ stack' = [stack EXCEPT ![t] = SplNext(@, s + 1)]
              /\ tstat' = tstat
           \/ /\ stack' = [stack EXCEPT ![t] = Goto(@, "spl_incr")]
              /\ tstat' = tstat
    /\ UNCHANGED <<W, ctlVars, otherVars, playerState, seeker, sync, thread, locked, adjustLatency>>

\* lines 636-657: the batch clear + add of the full sync
syncPlaylists_full(t) ==
    /\ At(t, "spl_full")
    /\ LET s == Top(stack[t]).s
       IN  \/ Raised(t)
           \/ /\ stack' = [stack EXCEPT ![t] = SplNext(@, s + 1)]
              /\ tstat' = tstat
    /\ UNCHANGED <<W, ctlVars, otherVars, playerState, seeker, sync, thread, locked, adjustLatency>>

\* lines 671-741: plchanges, the addid batch, the tag batch, status,
\* truncation, status, and the call of syncPlayer when the states differ
syncPlaylists_incremental(t) ==
    /\ At(t, "spl_incr")
    /\ LET s == Top(stack[t]).s
       IN  \/ Raised(t)
           \/ /\ stack' = [stack EXCEPT ![t] = SplNext(@, s + 1)]
              /\ tstat' = tstat
           \/ /\ Len(stack[t]) < MaxDepth
              /\ stack' = [stack EXCEPT ![t] =
                     Push(GotoS(@, "spl_loop", s + 1), Frame("sp_begin", s, 0))]
              /\ tstat' = tstat
    /\ UNCHANGED <<W, ctlVars, otherVars, playerState, seeker, sync, thread, locked, adjustLatency>>

\* lines 743-747, after syncPlayer returned
syncPlaylists_loop(t) ==
    /\ At(t, "spl_loop")
    /\ stack' = [stack EXCEPT ![t] = SplNext(@, Top(@).s)]
    /\ UNCHANGED <<W, ctlVars, otherVars, tstat, playerState, seeker, sync, thread, locked,
                   adjustLatency>>

----------------------------------------------------------------------------
(* Replicator: Master.syncPlayer.  Every position lies inside its try      *)
(* block, so an exception returns False to the caller.                     *)

\* lines 795-797 and 802: already playing the master's song (then measure
\* the difference), or seek and play
Decide(stk, already) == Goto(stk, IF already THEN "sp_cd1" ELSE "sp_play")

\* lines 778-797, 838-841: self.status(), slave.checkConnection(),
\* slave.status(), then the branch on the master's state; an empty
\* slave.playlist calls syncPlaylists first
syncPlayer_begin(t) ==
    /\ At(t, "sp_begin")
    /\ \/ /\ Raised(t)
          /\ playerState' = playerState
       \/ \E st \in States, empty \in BOOLEAN, already \in BOOLEAN :
            /\ playerState' = IF t = 0 THEN st ELSE playerState
            /\ empty => Len(stack[t]) < MaxDepth
            /\ stack' = [stack EXCEPT ![t] =
                  IF st = "play"
                  THEN IF empty
                       THEN Push(Goto(@, "sp_afterpl"), Frame("spl_status", 0, 0))
                       ELSE Decide(@, already)
                  ELSE IF st = "pause" THEN Goto(@, "sp_pause")
                  ELSE Goto(@, "sp_stop")]
            /\ tstat' = tstat
    /\ UNCHANGED <<W, ctlVars, otherVars, seeker, sync, thread, locked, adjustLatency>>

\* lines 795-802, after syncPlaylists returned
syncPlayer_afterPlaylists(t) ==
    /\ At(t, "sp_afterpl")
    /\ \E already \in BOOLEAN :
          stack' = [stack EXCEPT ![t] = Decide(@, already)]
    /\ UNCHANGED <<W, ctlVars, otherVars, tstat, playerState, seeker, sync, thread, locked,
                   adjustLatency>>

\* line 797: self._current_difference(slave) < 1 (pings and status reads on
\* both connections)
syncPlayer_difference(t) ==
    /\ At(t, "sp_cd1")
    /\ \E st \in States :
         /\ playerState' = IF t = 0 THEN st ELSE playerState
         /\ \/ Raised(t)
            \/ /\ stack' = [stack EXCEPT ![t] = Pop(@)]
               /\ tstat' = tstat
            \/ /\ stack' = [stack EXCEPT ![t] = Goto(@, "sp_play")]
               /\ tstat' = tstat
    /\ UNCHANGED <<W, ctlVars, otherVars, seeker, sync, thread, locked, adjustLatency>>

\* lines 807-836: slave.seek(self.song, self.elapsed), slave.play(initial=
\* True), sleep 0.2 s, playLatency = self._current_difference(slave)
syncPlayer_play(t) ==
    /\ At(t, "sp_play")
    /\ \E st \in States :
         /\ playerState' = IF t = 0 THEN st ELSE playerState
         /\ \/ Raised(t)
            \/ /\ stack' = [stack EXCEPT ![t] = Goto(@, "sp_stop")]
               /\ tstat' = tstat
            \/ /\ stack' = [stack EXCEPT ![t] = Pop(@)]
               /\ tstat' = tstat
    /\ UNCHANGED <<W, ctlVars, otherVars, seeker, sync, thread, locked, adjustLatency>>

\* lines 828-830 and 841: slave.stop()
syncPlayer_stop(t) ==
    /\ At(t, "sp_stop")
    /\ stack' = [stack EXCEPT ![t] = Pop(@)]
    /\ UNCHANGED <<W, ctlVars, otherVars, tstat, playerState, seeker, sync, thread, locked,
                   adjustLatency>>

\* line 839: slave.pause()
syncPlayer_pause(t) ==
    /\ At(t, "sp_pause")
    /\ stack' = [stack EXCEPT ![t] = Pop(@)]
    /\ UNCHANGED <<W, ctlVars, otherVars, tstat, playerState, seeker, sync, thread, locked,
                   adjustLatency>>

----------------------------------------------------------------------------
(* Master.syncPlayers, checkSeeker, startSeeker, stopSeeker and            *)
(* Seeker.start_loop, check_loop: run by the main thread only              *)

\* a Seeker object id for Seeker(self): one that is neither Master.seeker
\* nor the object of a thread still alive
NewSeekerId ==
    LET F == {k \in SeekerIds :
                 /\ k # seeker
                 /\ \A u \in Controllers : Alive(u) => SeekerOf(u) # k}
    IN  IF F = {} THEN 0 ELSE CHOOSE k \in F : \A j \in F : k <= j

\* a thread id for Thread(target=self._syncLoop): one that is not running
NewThreadId ==
    LET D == {u \in Controllers : ~Alive(u)}
    IN  IF D = {} THEN 0 ELSE CHOOSE u \in D : \A v \in D : u <= v

\* line 918: self.sync and not self.thread.is_alive()
CheckLoopNeededAlways(sk) == sync[sk]

CheckLoopNeeded(sk) == sync[sk] /\ ~Alive(thread[sk])

\* line 875: the wait loop of stopSeeker ends when the thread is not alive
StopWaitOver(sk) == ~Alive(thread[sk])

\* lines 904-913: start_loop sets sync, removes the locks and starts a
\* thread; the main thread then returns from syncPlayers
start_loop(sk) ==
    LET tid == NewThreadId
    IN  /\ tid # 0
        /\ sync' = [sync EXCEPT ![sk] = TRUE]
        /\ locked' = [s \in Slaves |-> FALSE]
        /\ thread' = [thread EXCEPT ![sk] = tid]
        /\ tstat' = [tstat EXCEPT ![tid] = "alive"]
        /\ stack' = [stack EXCEPT ![0] = Pop(@),
                                  ![tid] = <<Frame("sl_top", 0, sk)>>]

\* lines 757-767: the for loop over the slaves, then checkSeeker (lines
\* 861-867, 915-918), startSeeker (line 857) or stopSeeker (lines 872-874)
syncPlayers_loop ==
    /\ At(0, "spy_loop")
    /\ LET s == Top(stack[0]).s
       IN  \/ /\ s <= NumSlaves
              /\ stack' = [stack EXCEPT ![0] =
                              Push(GotoS(@, "spy_loop", s + 1), Frame("sp_begin", s, 0))]
              /\ UNCHANGED <<seeker, sync, thread>>
           \/ /\ s > NumSlaves
              /\ \/ ~adjustLatency
                 \/ playerState = "pause"
                 \/ playerState = "play" /\ seeker # 0 /\ ~CheckLoopNeeded(seeker)
                 \/ playerState = "stop" /\ seeker = 0
              /\ stack' = [stack EXCEPT ![0] = Pop(@)]
              /\ UNCHANGED <<seeker, sync, thread>>
           \/ /\ s > NumSlaves /\ adjustLatency
              /\ playerState = "play" /\ seeker # 0 /\ CheckLoopNeeded(seeker)
              /\ stack' = [stack EXCEPT ![0] = Goto(@, "cl_check")]
              /\ UNCHANGED <<seeker, sync, thread>>
           \/ /\ s > NumSlaves /\ adjustLatency
              /\ playerState = "play" /\ seeker = 0
              /\ NewSeekerId # 0
              /\ seeker' = NewSeekerId
              /\ sync' = [sync EXCEPT ![NewSeekerId] = FALSE]
              /\ thread' = [thread EXCEPT ![NewSeekerId] = 0]
              /\ stack' = [stack EXCEPT ![0] = Goto(@, "ss_connect")]
           \/ /\ s > NumSlaves /\ adjustLatency
              /\ playerState = "stop" /\ seeker # 0
              /\ sync' = [sync EXCEPT ![seeker] = FALSE]
              /\ stack' = [stack EXCEPT ![0] = Goto(@, "st_wait")]
              /\ UNCHANGED <<seeker, thread>>
    /\ UNCHANGED <<W, ctlVars, otherVars, tstat, playerState, locked, adjustLatency>>

\* lines 921-922: self.checkConnection() on the Seeker's connection, then
\* start_loop
check_loop_restart ==
    /\ At(0, "cl_check")
    /\ start_loop(seeker)
    /\ UNCHANGED <<W, ctlVars, otherVars, playerState, seeker, adjustLatency>>

\* lines 858-859: self.seeker.connect(), then start_loop; a failed connect
\* is not caught anywhere
startSeeker_connect ==
    /\ At(0, "ss_connect")
    /\ \/ /\ Raised(0)
          /\ UNCHANGED <<sync, thread, locked>>
       \/ start_loop(seeker)
    /\ UNCHANGED <<W, ctlVars, otherVars, playerState, seeker, adjustLatency>>

\* lines 875-877: wait until the thread is not alive
stopSeeker_wait ==
    /\ At(0, "st_wait")
    /\ StopWaitOver(seeker)
    /\ stack' = [stack EXCEPT ![0] = Goto(@, "st_disc")]
    /\ UNCHANGED <<W, ctlVars, otherVars, tstat, playerState, seeker, sync, thread, locked,
                   adjustLatency>>

\* lines 882-883: self.seeker.disconnect(); self.seeker = None
stopSeeker_disconnect ==
    /\ At(0, "st_disc")
    /\ seeker' = 0
    /\ stack' = [stack EXCEPT ![0] = Pop(@)]
    /\ UNCHANGED <<W, ctlVars, otherVars, tstat, playerState, sync, thread, locked,
                   adjustLatency>>

----------------------------------------------------------------------------
(* main: syncAll, then the idle loop *)

\* lines 604-606: syncAll calls syncPlayers after syncPlaylists returned
main_syncAll ==
    /\ At(0, "main_syncAll")
    /\ stack' = [stack EXCEPT ![0] = Push(Goto(@, "idle"), Frame("spy_loop", 1, 0))]
    /\ UNCHANGED <<W, ctlVars, otherVars, tstat, playerState, seeker, sync, thread, locked,
                   adjustLatency>>

\* lines 1342-1356: master.idle() returns a subsystem (options does
\* nothing); a lost connection is not caught and ends the program
main_idle ==
    /\ At(0, "idle")
    /\ \/ /\ stack' = [stack EXCEPT ![0] = Push(@, Frame("spl_status", 0, 0))]
          /\ tstat' = tstat
       \/ /\ stack' = [stack EXCEPT ![0] = Push(@, Frame("spy_loop", 1, 0))]
          /\ tstat' = tstat
       \/ Raised(0)
    /\ UNCHANGED <<W, ctlVars, otherVars, playerState, seeker, sync, thread, locked,
                   adjustLatency>>
----------------------------------------------------------------------------
(* Seeker._syncLoop, _reseek_necessary, _current_difference and            *)
(* _reseek_player: run by a controller thread                              *)

\* lines 947-958: the for loop from slave s0 on, with the locks lk: a
\* locked slave is skipped, the first unlocked one is locked and
\* _reseek_necessary begins; after the last slave the thread sleeps
ForNext(t, s0, lk) ==
    LET F == {i \in s0..NumSlaves : ~lk[i]}
    IN  IF F = {}
        THEN /\ stack' = [stack EXCEPT ![t] = GotoS(@, "sl_top", 0)]
             /\ locked' = lk
        ELSE LET i == CHOOSE i \in F : \A j \in F : i <= j
             IN  /\ stack' = [stack EXCEPT ![t] = GotoS(@, "rn_pre", i)]
                 /\ locked' = [lk EXCEPT ![i] = TRUE]

\* line 968: slave.syncLoopLocked = False
Unlock(lk, s) == [lk EXCEPT ![s] = FALSE]

\* line 928: while self.sync
WhileSyncForever(sk) == TRUE

WhileSync(sk) == sync[sk]

\* lines 928, 944, 981-992: the while test, the test of master.playing, the
\* sleep
syncLoop_top(t) ==
    /\ t \in Controllers
    /\ At(t, "sl_top")
    /\ \/ /\ ~WhileSync(SeekerOf(t))
          /\ tstat' = [tstat EXCEPT ![t] = "dead"]
          /\ stack' = [stack EXCEPT ![t] = <<>>]
          /\ locked' = locked
       \/ /\ WhileSync(SeekerOf(t))
          /\ playerState = "play"
          /\ ForNext(t, 1, locked)
          /\ tstat' = tstat
       \/ /\ WhileSync(SeekerOf(t))
          /\ playerState # "play"
          /\ UNCHANGED <<tstat, stack, locked>>
    /\ UNCHANGED <<W, ctlVars, otherVars, playerState, seeker, sync, thread, adjustLatency>>

\* lines 1137-1147 and 515-526: self.status(), slave.checkConnection(),
\* then in _current_difference self.ping(), slave.ping(), self.status();
\* none of them is inside a try block
reseek_necessary_begin(t) ==
    /\ t \in Controllers
    /\ At(t, "rn_pre")
    /\ \/ Raised(t)
       \/ /\ stack' = [stack EXCEPT ![t] = Goto(@, "cd_sstatus")]
          /\ tstat' = tstat
    /\ UNCHANGED <<W, ctlVars, otherVars, playerState, seeker, sync, thread, locked, adjustLatency>>

\* lines 529 and 391: slave.status(); the read of the reply at line 391 is
\* outside the try block of Client.status, so a dropped connection raises
\* into _syncLoop
current_difference_slaveStatus(t) ==
    /\ t \in Controllers
    /\ At(t, "cd_sstatus")
    /\ \/ Raised(t)
       \/ /\ stack' = [stack EXCEPT ![t] = Goto(@, "cd_measure")]
          /\ tstat' = tstat
    /\ UNCHANGED <<W, ctlVars, otherVars, playerState, seeker, sync, thread, locked, adjustLatency>>

\* lines 534-569, 1148-1164, 1005-1013 and 968: the song-change reset
\* (slave.playlist[int(slave.song)] raises when a reconnect has reset
\* them), the sample, the decision, the correction and the position; then
\* the seek begins or the slave is unlocked
current_difference_measure(t) ==
    /\ t \in Controllers
    /\ At(t, "cd_measure")
    /\ LET s == Top(stack[t]).s
       IN  \/ /\ Raised(t)
              /\ locked' = locked
           \/ /\ ForNext(t, s + 1, Unlock(locked, s))
              /\ tstat' = tstat
           \/ /\ stack' = [stack EXCEPT ![t] = Goto(@, "rp_seek")]
              /\ tstat' = tstat
              /\ locked' = locked
    /\ UNCHANGED <<W, ctlVars, otherVars, playerState, seeker, sync, thread, adjustLatency>>

\* lines 1027-1033: the except clause of the seek: slave.playlistVersion =
\* None and self.syncPlaylists()
SeekFailedUncaught(t) ==
    Raised(t)

SeekFailed(t) ==
    /\ stack' = [stack EXCEPT ![t] =
                    Push(Goto(@, "rp_after"), Frame("spl_status", 0, 0))]
    /\ tstat' = tstat

\* lines 1022-1052 and 968: slave.seek(self.song, position) returns
reseek_player_seek(t) ==
    /\ t \in Controllers
    /\ At(t, "rp_seek")
    /\ LET s == Top(stack[t]).s
       IN  \/ /\ ForNext(t, s + 1, Unlock(locked, s))
              /\ tstat' = tstat
           \/ /\ SeekFailed(t)
              /\ locked' = locked
    /\ UNCHANGED <<W, ctlVars, otherVars, playerState, seeker, sync, thread, adjustLatency>>

\* lines 1037-1038, after syncPlaylists returned: clear the song's
\* adjustments, begin slave.checkConnection()
reseek_player_after(t) ==
    /\ t \in Controllers
    /\ At(t, "rp_after")
    /\ stack' = [stack EXCEPT ![t] = Goto(@, "rp_check")]
    /\ UNCHANGED <<W, ctlVars, otherVars, tstat, playerState, seeker, sync, thread, locked,
                   adjustLatency>>

\* lines 1038-1040 and 968: slave.checkConnection() returns, unlock
reseek_player_check(t) ==
    /\ t \in Controllers
    /\ At(t, "rp_check")
    /\ ForNext(t, Top(stack[t]).s + 1, Unlock(locked, Top(stack[t]).s))
    /\ UNCHANGED <<W, ctlVars, otherVars, tstat, playerState, seeker, sync, thread, adjustLatency>>

----------------------------------------------------------------------------
(* SpecCtl: the seek controller for one slave, run by one thread with no   *)
(* player events: _reseek_necessary (with _current_difference and          *)
(* _max_difference) and _reseek_player (with _calc_adjustment).  The       *)
(* slave's daemon plays at an offset (drift) from the master, which a      *)
(* seek or a song change sets anew; a measurement samples it.              *)

\* Python 2's round(x, 3) on seconds: to the nearest millisecond, halves
\* away from zero
Round3(x) ==
    IF x >= 0 THEN ((x + 500) \div 1000) * 1000
    ELSE -(((-x + 500) \div 1000) * 1000)

evenAlways(num) == TRUE

even(num) == (num % 2) = 0

\* ping times the daemons answer with
PingVals == {2000}

\* the master's elapsed as a status read reports it
ElapsedVals == {1000, 60000000}

\* offsets of the slave's playback from the master's
DriftVals == {-200000, 10000}

\* the slave's latency given on the command line: <<>> is None
Latencies == {<<>>, <<400000>>}

Songs == 1..NumSongs

\* the Client attributes of the slave after Client.__init__ and connect
\* (testPing pings 5 times)
InitSlave(latency, p) ==
    [latency |-> latency,
     pings |-> ALInsert(ALInsert(ALInsert(ALInsert(ALInsert(
                   AveragedList(10), 0, p), 0, p), 0, p), 0, p), 0, p),
     adjustments |-> AveragedList(20),
     fileTypeAdjustments |-> AveragedList(0),
     currentSongShouldSeek |-> TRUE,
     currentSongAdjustments |-> AveragedList(0),
     currentSongDifferences |-> AveragedList(0),
     lastSong |-> 0]

\* lines 534-544: the reset of _current_difference when the song changed
SongResetKeepsAdjustments(s, song) ==
    IF s.lastSong # song
    THEN [s EXCEPT !.currentSongShouldSeek = TRUE,
                   !.currentSongDifferences = AveragedList(0),
                   !.lastSong = song]
    ELSE s

SongReset(s, song) ==
    IF s.lastSong # song
    THEN [s EXCEPT !.currentSongShouldSeek = TRUE,
                   !.currentSongAdjustments = AveragedList(10),
                   !.currentSongDifferences = AveragedList(0),
                   !.lastSong = song]
    ELSE s

\* lines 552-569: the sample, when the slave reports an elapsed time
Sample(s, hasElapsed, difference) ==
    IF hasElapsed
    THEN [s EXCEPT !.currentSongDifferences = ALInsert(@, 0, difference)]
    ELSE s

\* line 1228: 25 ms for each adjustment of the song over 3
increase_byShrinking(k) == -25000 * (k - 3)

increase_by(k) == 25000 * (k - 3)

\* lines 1166-1238
max_differenceWithoutMinimum(s, selfPings) ==
    LET d == s.currentSongDifferences
        n == Len(d.items)
        base ==
            IF n >= 10 THEN Quot(d.range, 4) + Quot(Abs(d.average), 2)
            ELSE IF n >= 5 THEN Quot(d.range, 2)
            ELSE IF s.pings.average # 0
            THEN MinOf(200000,
                       MaxOf(30000, 30 * MaxOf(s.pings.average, selfPings.average)))
            ELSE 200000
        k == Len(s.currentSongAdjustments.items)
    IN  Round3(IF k > 3 THEN base + increase_by(k) ELSE base)

max_difference(s, selfPings) ==
    LET d == s.currentSongDifferences
        n == Len(d.items)
        first == Prefix(d.items, 10)
        minimumMaxDifference ==
            MaxOf(30000, Quot(MaxOf(Abs(SeqMax(first)), Abs(SeqMin(first))), 2))
        fromRange ==
            IF n >= 10 THEN Quot(d.range, 4) + Quot(Abs(d.average), 2)
            ELSE Quot(d.range, 2)
        base ==
            IF n >= 5
            THEN IF fromRange < minimumMaxDifference
                 THEN minimumMaxDifference ELSE fromRange
            ELSE IF s.pings.average # 0
            THEN MinOf(200000,
                       MaxOf(30000, 30 * MaxOf(s.pings.average, selfPings.average)))
            ELSE 200000
        k == Len(s.currentSongAdjustments.items)
    IN  Round3(IF k > 3 THEN base + increase_by(k) ELSE base)

\* lines 1148-1164: the decision of _reseek_necessary after the measurement
NecessaryByAverageAlone(s, selfPings, hasElapsed) ==
    LET d == s.currentSongDifferences
        M == max_difference(s, selfPings)
    IN  /\ hasElapsed
        /\ Len(d.items) >= 3
        /\ Abs(d.average) > M

NecessaryAfterFive(s, selfPings, hasElapsed) ==
    LET d == s.currentSongDifferences
        M == max_difference(s, selfPings)
    IN  /\ hasElapsed
        /\ Len(d.items) >= 5
        /\ Abs(d.average) > M
        /\ Abs(d.items[1]) > M

Necessary(s, selfPings, hasElapsed) ==
    LET d == s.currentSongDifferences
        M == max_difference(s, selfPings)
    IN  /\ hasElapsed
        /\ Len(d.items) >= 3
        /\ Abs(d.average) > M
        /\ Abs(d.items[1]) > M

\* lines 1054-1131: the adjustment and the slave after it (an adjustment
\* by ping clears the song's differences)
calc_adjustmentClampsLatency(s) ==
    LET n == Len(s.currentSongAdjustments.items)
        chosen ==
            IF s.latency # <<>> THEN s.latency[1]
            ELSE IF n < 1
            THEN IF Len(s.adjustments.items) > 5
                 THEN Quot(s.adjustments.average * 3, 4)
                 ELSE s.pings.average
            ELSE IF n > MAX_ADJUSTMENTS /\ ~even(n) THEN s.pings.average
            ELSE s.currentSongDifferences.average
        clamped ==
            IF Abs(chosen) > MAX_ADJUSTMENT THEN s.pings.average ELSE chosen
    IN  IF clamped = s.pings.average
        THEN [adjustBy |-> clamped,
              slave |-> [s EXCEPT !.currentSongDifferences = ALClear(@)]]
        ELSE [adjustBy |-> -clamped, slave |-> s]

calc_adjustmentKeepsDifferences(s) ==
    IF s.latency # <<>>
    THEN [adjustBy |-> s.latency[1], slave |-> s]
    ELSE LET n == Len(s.currentSongAdjustments.items)
             chosen ==
                 IF n < 1
                 THEN IF Len(s.adjustments.items) > 5
                      THEN Quot(s.adjustments.average * 3, 4)
                      ELSE s.pings.average
                 ELSE IF n > MAX_ADJUSTMENTS /\ ~even(n) THEN s.pings.average
                 ELSE s.currentSongDifferences.average
             clamped ==
                 IF Abs(chosen) > MAX_ADJUSTMENT THEN s.pings.average ELSE chosen
         IN  [adjustBy |-> IF clamped = s.pings.average THEN clamped ELSE -clamped,
              slave |-> s]

calc_adjustment(s) ==
    IF s.latency # <<>>
    THEN [adjustBy |-> s.latency[1], slave |-> s]
    ELSE LET n == Len(s.currentSongAdjustments.items)
             chosen ==
                 IF n < 1
                 THEN IF Len(s.adjustments.items) > 5
                      THEN Quot(s.adjustments.average * 3, 4)
                      ELSE s.pings.average
                 ELSE IF n > MAX_ADJUSTMENTS
                 THEN IF ~even(n) THEN s.pings.average
                      ELSE s.currentSongDifferences.average
                 ELSE s.currentSongDifferences.average
             clamped ==
                 IF Abs(chosen) > MAX_ADJUSTMENT THEN s.pings.average ELSE chosen
         IN  IF clamped = s.pings.average
             THEN [adjustBy |-> clamped,
                   slave |-> [s EXCEPT !.currentSongDifferences = ALClear(@)]]
             ELSE [adjustBy |-> -clamped, slave |-> s]

\* line 1009: position < 0
PositionNegativeNever(position) == FALSE

PositionNegative(position) == position < 0

\* lines 1045-1050: the bookkeeping of a seek that succeeded
SeekSucceededKeepsDifferences(s, adjustBy) ==
    [s EXCEPT !.adjustments = ALInsert(@, 0, adjustBy),
              !.currentSongAdjustments = ALAppend(@, adjustBy),
              !.fileTypeAdjustments = ALAppend(@, adjustBy)]

SeekSucceeded(s, adjustBy) ==
    [s EXCEPT !.adjustments = ALInsert(@, 0, adjustBy),
              !.currentSongAdjustments = ALAppend(@, adjustBy),
              !.fileTypeAdjustments = ALAppend(@, adjustBy),
              !.currentSongDifferences = ALClear(@)]

\* lines 1027-1040: the except clause of a seek that failed; the ping of
\* checkConnection
SeekFailedBookkeeping(s, p) ==
    [s EXCEPT !.currentSongAdjustments = ALClear(@),
              !.pings = ALInsert(@, 0, p)]

CtlInit ==
    /\ \E latency \in Latencies, p \in PingVals :
          /\ slave = InitSlave(latency, p)
          /\ ctl = [pc |-> "rn",
                    pings |-> InitSlave(latency, p).pings,
                    elapsed |-> 0,
                    adjustBy |-> <<>>,
                    position |-> <<>>,
                    issued |-> <<>>]
    /\ \E d \in DriftVals : daemon = [song |-> 1, drift |-> d]

\* the variables of the other specifications at rest
ReplIdle ==
    /\ master = [state |-> "stop", song |-> -1, queue |-> <<>>, version |-> 1]
    /\ mpd = [state |-> "stop", song |-> -1, queue |-> <<>>, far |-> FALSE]
    /\ client = [hasBeenSynced |-> FALSE, playlist |-> <<>>,
                 playlistVersion |-> 0, seen |-> <<>>, lastSong |-> -1]
    /\ call = [kind |-> "none", sent |-> <<>>, ret |-> "None", tries |-> 0,
               quiet |-> 0]

\* lines 215-216: both archives begin empty
ArchIdle ==
    /\ song_adjustments = <<>>
    /\ song_differences = <<>>

\* no song is followed iteration by iteration, and main is past its
\* start
StartIdle ==
    /\ track = [scenario |-> "none", iteration |-> 0]
    /\ proc = [pc |-> "idle"]

OtherIdle ==
    /\ maxDifference = <<>>
    /\ ReplIdle
    /\ ArchIdle
    /\ StartIdle

\* the controller at rest, for the specifications that do not run it
CtlIdle ==
    /\ slave = InitSlave(<<>>, 2000)
    /\ ctl = [pc |-> "rn", pings |-> InitSlave(<<>>, 2000).pings, elapsed |-> 0,
              adjustBy |-> <<>>, position |-> <<>>, issued |-> <<>>]
    /\ daemon = [song |-> 1, drift |-> 10000]

\* lines 1133-1164 with 499-569: one call of _reseek_necessary.  The pings
\* are those of checkConnection (line 1140) and of _current_difference
\* (lines 515-516).
reseek_necessary ==
    /\ ctl.pc = "rn"
    /\ Len(slave.currentSongDifferences.items) < MaxSamples
    /\ \E p \in PingVals, e \in ElapsedVals, hasElapsed \in BOOLEAN :
         IF ~slave.currentSongShouldSeek
         THEN /\ slave' = [slave EXCEPT !.pings = ALInsert(@, 0, p)]
              /\ ctl' = [ctl EXCEPT !.elapsed = e, !.adjustBy = <<>>,
                                    !.position = <<>>, !.issued = <<>>]
         ELSE LET s1 == [slave EXCEPT !.pings = ALInsert(ALInsert(@, 0, p), 0, p)]
                  mp == ALInsert(ctl.pings, 0, p)
                  s2 == Sample(SongReset(s1, daemon.song), hasElapsed, daemon.drift)
              IN  /\ slave' = s2
                  /\ ctl' = [ctl EXCEPT
                        !.pc = IF Necessary(s2, mp, hasElapsed) THEN "rp" ELSE "rn",
                        !.pings = mp,
                        !.elapsed = e,
                        !.adjustBy = <<>>,
                        !.position = <<>>,
                        !.issued = <<>>]
    /\ UNCHANGED <<W, otherVars, progVars, daemon>>

\* lines 994-1052: one call of _reseek_player.  slave.seek sends the
\* position rounded to the millisecond (MyFloat.__repr__).  The slave's
\* playback is somewhere else after the seek, whether it succeeded or
\* timed out.
reseek_player ==
    /\ ctl.pc = "rp"
    /\ Len(slave.fileTypeAdjustments.items) < MaxAdjust
    /\ LET r == calc_adjustment(slave)
           position == ctl.elapsed - r.adjustBy
       IN  IF PositionNegative(position)
           THEN /\ slave' = r.slave
                /\ ctl' = [ctl EXCEPT !.pc = "rn", !.adjustBy = <<r.adjustBy>>,
                                      !.position = <<position>>]
                /\ daemon' = daemon
           ELSE \E ok \in BOOLEAN, d \in DriftVals, p \in PingVals :
                  /\ slave' = IF ok THEN SeekSucceeded(r.slave, r.adjustBy)
                              ELSE SeekFailedBookkeeping(r.slave, p)
                  /\ ctl' = [ctl EXCEPT !.pc = "rn", !.adjustBy = <<r.adjustBy>>,
                                        !.position = <<position>>,
                                        !.issued = <<Round3(position)>>]
                  /\ daemon' = [daemon EXCEPT !.drift = d]
    /\ UNCHANGED <<W, otherVars, progVars>>

\* the slave's daemon moves on to the next song of the playlist
song_changes ==
    /\ daemon.song < NumSongs
    /\ \E d \in DriftVals :
          daemon' = [song |-> daemon.song + 1, drift |-> d]
    /\ UNCHANGED <<W, otherVars, progVars, slave, ctl>>

----------------------------------------------------------------------------
(* The specifications *)

\* the program after main has connected the master and the slaves and
\* syncAll has called syncPlaylists
Init ==
    /\ W = AveragedList(0)
    /\ stack = [t \in Threads |->
                  IF t = 0 THEN <<Frame("main_syncAll", 0, 0), Frame("spl_status", 0, 0)>>
                  ELSE <<>>]
    /\ tstat = [t \in Threads |-> IF t = 0 THEN "alive" ELSE "dead"]
    /\ playerState = "stop"
    /\ seeker = 0
    /\ sync = [k \in SeekerIds |-> FALSE]
    /\ thread = [k \in SeekerIds |-> 0]
    /\ locked = [s \in Slaves |-> FALSE]
    /\ adjustLatency \in BOOLEAN
    /\ CtlIdle
    /\ OtherIdle

Next ==
    \/ main_syncAll
    \/ main_idle
    \/ syncPlayers_loop
    \/ check_loop_restart
    \/ startSeeker_connect
    \/ stopSeeker_wait
    \/ stopSeeker_disconnect
    \/ \E t \in Threads :
         \/ syncPlaylists_status(t)
         \/ syncPlaylists_check(t)
         \/ syncPlaylists_full(t)
         \/ syncPlaylists_incremental(t)
         \/ syncPlaylists_loop(t)
         \/ syncPlayer_begin(t)
         \/ syncPlayer_afterPlaylists(t)
         \/ syncPlayer_difference(t)
         \/ syncPlayer_play(t)
         \/ syncPlayer_stop(t)
         \/ syncPlayer_pause(t)
         \/ syncLoop_top(t)
         \/ reseek_necessary_begin(t)
         \/ current_difference_slaveStatus(t)
         \/ current_difference_measure(t)
         \/ reseek_player_seek(t)
         \/ reseek_player_after(t)
         \/ reseek_player_check(t)

Spec == Init /\ [][Next]_vars

\* what the main thread does between two returns of master.idle()
MainNext ==
    \/ main_syncAll
    \/ syncPlayers_loop
    \/ check_loop_restart
    \/ startSeeker_connect
    \/ stopSeeker_wait
    \/ stopSeeker_disconnect

\* the steps of thread t inside the replicator and the controller
ThreadNext(t) ==
    \/ syncPlaylists_status(t)
    \/ syncPlaylists_check(t)
    \/ syncPlaylists_full(t)
    \/ syncPlaylists_incremental(t)
    \/ syncPlaylists_loop(t)
    \/ syncPlayer_begin(t)
    \/ syncPlayer_afterPlaylists(t)
    \/ syncPlayer_difference(t)
    \/ syncPlayer_play(t)
    \/ syncPlayer_stop(t)
    \/ syncPlayer_pause(t)
    \/ syncLoop_top(t)
    \/ reseek_necessary_begin(t)
    \/ current_difference_slaveStatus(t)
    \/ current_difference_measure(t)
    \/ reseek_player_seek(t)
    \/ reseek_player_after(t)
    \/ reseek_player_check(t)

\* Every thread that can take a step takes one: the threads are scheduled
\* and every network call returns or raises.  master.idle() alone may
\* block for ever (main_idle is under no fairness condition).
SpecFair ==
    /\ Spec
    /\ WF_vars(MainNext)
    /\ \A t \in Threads : WF_vars(ThreadNext(t))

\* the windowed statistic alone; the program does not run
StatProgInit ==
    /\ stack = [t \in Threads |-> <<>>]
    /\ tstat = [t \in Threads |-> "dead"]
    /\ playerState = "stop"
    /\ seeker = 0
    /\ sync = [k \in SeekerIds |-> FALSE]
    /\ thread = [k \in SeekerIds |-> 0]
    /\ locked = [s \in Slaves |-> FALSE]
    /\ adjustLatency = FALSE

SpecStatInit == StatInit /\ StatProgInit /\ CtlIdle /\ OtherIdle

SpecStat == SpecStatInit /\
    [][StatInsert \/ StatAppend \/ StatExtend \/ StatClear]_vars

----------------------------------------------------------------------------
(* Which connection a position uses *)

\* positions whose calls go over the thread's own connection to the master
\* server: self.status(), self.ping(), self.getPlaylist() (lines 612-613,
\* 695, 778, 515-526, 1137) and master.idle() (line 1342)
SelfPcs == {"idle", "spl_status", "spl_incr", "sp_begin", "sp_cd1", "sp_play",
            "rn_pre"}

\* positions whose calls go over the slave's connection
SlavePcs == {"spl_check", "spl_full", "spl_incr", "sp_begin", "sp_cd1",
             "sp_play", "sp_stop", "sp_pause", "rn_pre", "cd_sstatus",
             "rp_seek", "rp_check"}

\* positions of the main thread whose calls go over Master.seeker's
\* connection: connect (858), checkConnection (921), disconnect (882)
SeekerPcs == {"ss_connect", "cl_check", "st_disc"}

\* positions that change the slave: clear/add (636-657), addid/delete
\* (671-727), seek/play (807-812), stop (830, 841), pause (839), seek (1024)
WritePcs == {"spl_full", "spl_incr", "sp_play", "sp_stop", "sp_pause",
             "rp_seek"}

\* the replicator's share of them
ReplWritePcs == WritePcs \ {"rp_seek"}

\* the connections thread t has a call in progress on
ConnsAt(t) ==
    IF ~Alive(t) \/ stack[t] = <<>> THEN {}
    ELSE LET f == Top(stack[t])
         IN  (IF f.pc \in SelfPcs THEN {SelfConn(t)} ELSE {})
             \cup (IF f.pc \in SlavePcs THEN {<<"S", f.s>>} ELSE {})
             \cup (IF f.pc \in SeekerPcs THEN {<<"K", seeker>>} ELSE {})

\* the positions of _syncLoop between locking a slave (line 958) and
\* unlocking it (line 968)
IterPcs == {"rn_pre", "cd_sstatus", "cd_measure", "rp_seek", "rp_after",
            "rp_check"}

\* controller thread t is in an iteration for slave s, holding its lock
Holds(t, s) ==
    /\ t \in Controllers
    /\ Alive(t)
    /\ stack[t][1].pc \in IterPcs
    /\ stack[t][1].s = s

\* thread t has a replication write to slave s in progress
ReplWriting(t, s) ==
    /\ Alive(t)
    /\ stack[t] # <<>>
    /\ Top(stack[t]).pc \in ReplWritePcs
    /\ Top(stack[t]).s = s

----------------------------------------------------------------------------
(* Claims about the threads *)

\* C1: at most one controller thread is alive, and no slave's
\* syncLoopLocked is held by two loop iterations at once.
C1_OneIteration ==
    /\ Cardinality({t \in Controllers : Alive(t)}) <= 1
    /\ \A s \in Slaves : Cardinality({t \in Controllers : Holds(t, s)}) <= 1

\* C1 witness: a player notification is being handled while playing (the
\* main thread is about to run checkSeeker) and the controller thread of
\* the existing Seeker is inside an iteration, holding a lock.
C1_Witness ==
    /\ At(0, "spy_loop")
    /\ Top(stack[0]).s > NumSlaves
    /\ playerState = "play"
    /\ seeker # 0
    /\ sync[seeker]
    /\ \E t \in Controllers, s \in Slaves : Holds(t, s) /\ locked[s]

\* C2 as the spec states it: the replicator never has a write to a slave
\* in progress while the controller thread holds that slave's lock (and so
\* the controller's reseek never runs during a replication write).
C2_WritesSerialized ==
    \A s \in Slaves : \A t \in Threads, u \in Controllers :
        t # u => ~(ReplWriting(t, s) /\ Holds(u, s))

\* C3 as the spec states it: no slave connection has calls of two threads
\* in progress at once.
C3_NoConcurrentUse ==
    \A s \in Slaves :
        Cardinality({t \in Threads : <<"S", s>> \in ConnsAt(t)}) <= 1

\* C4: the Master's connection is used by the main thread only, idle is
\* called by the main thread only, and the main thread has a call in
\* progress on a Seeker's connection only while no thread of that Seeker
\* is alive.
C4_LeaderConnections ==
    /\ \A t \in Controllers : <<"M", 0>> \notin ConnsAt(t)
    /\ \A t \in Controllers : ~At(t, "idle")
    /\ \A t \in Controllers :
          Alive(t) => <<"K", SeekerOf(t)>> \notin ConnsAt(0)

\* C4 witness: stopSeeker disconnects the Seeker's connection after the
\* thread that used it has ended.
C4_Witness ==
    /\ At(0, "st_disc")
    /\ seeker # 0
    /\ thread[seeker] # 0
    /\ tstat[thread[seeker]] = "dead"
    /\ <<"K", seeker>> \in ConnsAt(0)

C6_DropSurvived ==
    [][\A t \in Controllers :
          At(t, "cd_sstatus") => (tstat'[t] = "alive" \/ tstat'[0] = "crashed")]_vars

----------------------------------------------------------------------------
(* Claims about AveragedList, under SpecStat *)

\* C9 as the spec states it: a list constructed with a capacity never
\* holds more elements than its capacity.
C9_LengthBounded ==
    W.length # 0 => Len(W.items) <= W.length

\* C10 as the spec states it: the statistics equal those computed from the
\* contents alone, and are all 0 when the list is empty.
C10_StatsFromScratch ==
    W = FromScratch(W)

----------------------------------------------------------------------------
(* The controller specification *)

SpecCtlInit == W = AveragedList(0) /\ StatProgInit /\ CtlInit /\ OtherIdle

SpecCtl == SpecCtlInit /\
    [][reseek_necessary \/ reseek_player \/ song_changes]_vars

----------------------------------------------------------------------------
(* Claims about the seek controller, under SpecCtl *)

\* C7 as the spec states it: once at least 10 samples are held whose
\* moving average is below 0.030 s in size, currentSongShouldSeek is
\* false.
C7_FlagCleared ==
    (/\ Len(slave.currentSongDifferences.items) >= 10
     /\ Abs(slave.currentSongDifferences.average) < 30000)
        => ~slave.currentSongShouldSeek

\* C8: a call of _reseek_player that computes a negative position issues
\* no seek and adds nothing to adjustments, currentSongAdjustments and
\* fileTypeAdjustments; a seek it issues is for the position elapsed -
\* adjustBy, which is not negative.
C8_NoNegativeSeek ==
    [][(ctl.pc = "rp" /\ ctl'.pc = "rn") =>
          LET position == ctl'.position[1]
          IN  /\ position = ctl.elapsed - ctl'.adjustBy[1]
              /\ IF position < 0
                 THEN /\ ctl'.issued = <<>>
                      /\ slave'.adjustments = slave.adjustments
                      /\ slave'.currentSongAdjustments = slave.currentSongAdjustments
                      /\ slave'.fileTypeAdjustments = slave.fileTypeAdjustments
                 ELSE /\ ctl'.issued = <<Round3(position)>>
                      /\ ctl'.issued[1] >= 0]_vars

\* C8 witness: _reseek_player has returned after computing a negative
\* position, and no seek was issued.
C8_Witness ==
    /\ ctl.pc = "rn"
    /\ ctl.position # <<>>
    /\ ctl.position[1] < 0
    /\ ctl.issued = <<>>

\* C11: a slave whose song differs from lastSong has no differences after
\* the reset (before the sample of that measurement is inserted), and
\* after a seek that succeeded with an adjustment other than the ping
\* average currentSongDifferences is empty.
C11_DifferencesEmptied ==
    [][/\ (ctl.pc = "rn" /\ slave.lastSong # daemon.song) =>
            SongReset(slave, daemon.song).currentSongDifferences.items = <<>>
       /\ (/\ ctl.pc = "rp"
           /\ ctl'.pc = "rn"
           /\ ctl'.issued # <<>>
           /\ Len(slave'.adjustments.items) = Len(slave.adjustments.items) + 1
           /\ ctl'.adjustBy[1] # slave.pings.average) =>
            slave'.currentSongDifferences.items = <<>>]_vars

\* C11 witness: a seek by the average difference has just succeeded (the
\* adjustment is recorded for the song) and the song's differences are
\* gone.
C11_Witness ==
    /\ ctl.pc = "rn"
    /\ ctl.issued # <<>>
    /\ slave.latency = <<>>
    /\ slave.currentSongAdjustments.items # <<>>
    /\ ctl.adjustBy[1] # slave.pings.average
    /\ slave.adjustments.items[1] = ctl.adjustBy[1]
    /\ slave.currentSongDifferences.items = <<>>

\* C19: a measurement that finds the slave on another song than lastSong
\* resets before it interprets: after it currentSongAdjustments is empty,
\* currentSongDifferences holds at most the sample of this measurement,
\* currentSongShouldSeek is true, lastSong is the current song, and the
\* history of the song before does not make it reseek.
C19_ResetBeforeInterpretation ==
    [][(/\ ctl.pc = "rn"
        /\ daemon' = daemon
        /\ slave.lastSong # daemon.song) =>
            /\ slave'.currentSongAdjustments.items = <<>>
            /\ Len(slave'.currentSongDifferences.items) <= 1
            /\ slave'.currentSongShouldSeek
            /\ slave'.lastSong = daemon.song
            /\ ctl'.pc = "rn"]_vars

\* C19 witness: the second song has just been measured for the first
\* time, after corrections were made on the first one.
C19_Witness ==
    /\ ctl.pc = "rn"
    /\ daemon.song = 2
    /\ slave.lastSong = 2
    /\ slave.latency = <<>>
    /\ slave.adjustments.items # <<>>
    /\ slave.currentSongAdjustments.items = <<>>
    /\ Len(slave.currentSongDifferences.items) = 1

----------------------------------------------------------------------------
(* The tolerance specification: _max_difference on drawn histories *)

\* ping times of the slave: none measured, a LAN, a slow link
TolPings == {0, 2000, 7017}

\* samples of the difference
TolDiffs == {-37499, 91000}

TolInit ==
    /\ \E p \in TolPings :
          slave = [InitSlave(<<>>, p) EXCEPT !.lastSong = 1]
    /\ ctl = [pc |-> "tol", pings |-> InitSlave(<<>>, 2000).pings,
              elapsed |-> 0, adjustBy |-> <<>>, position |-> <<>>,
              issued |-> <<>>]
    /\ daemon = [song |-> 1, drift |-> 0]
    /\ maxDifference = <<max_difference(slave, ctl.pings)>>

\* lines 558 and 1147: one more sample of the song, then _max_difference
tol_sample ==
    /\ Len(slave.currentSongDifferences.items) < MaxSamples
    /\ \E d \in TolDiffs :
          /\ slave' = Sample(slave, TRUE, d)
          /\ maxDifference' = <<max_difference(slave', ctl.pings)>>
    /\ UNCHANGED <<W, progVars, replVars, archVars, ctl, daemon, track, proc>>

\* lines 1046 and 1147: one more adjustment of the song, the history of
\* differences and the pings being kept, then _max_difference
tol_adjust ==
    /\ Len(slave.currentSongAdjustments.items) < MaxAdjust
    /\ slave' = [slave EXCEPT !.currentSongAdjustments = ALAppend(@, 1000)]
    /\ maxDifference' = <<max_difference(slave', ctl.pings)>>
    /\ UNCHANGED <<W, progVars, replVars, archVars, ctl, daemon, track, proc>>

SpecTolInit ==
    W = AveragedList(0) /\ StatProgInit /\ TolInit /\ ReplIdle /\ ArchIdle
        /\ StartIdle

SpecTol == SpecTolInit /\ [][tol_sample \/ tol_adjust]_vars

\* C16: with the differences and the pings kept, one more adjustment of
\* the song never lowers the tolerance: up to 3 adjustments it stays what
\* it was, and each adjustment over 3 adds 25 ms.
C16_ToleranceGrows ==
    [][(/\ slave'.currentSongDifferences = slave.currentSongDifferences
        /\ slave'.pings = slave.pings
        /\ ctl'.pings = ctl.pings
        /\ Len(slave'.currentSongAdjustments.items)
              = Len(slave.currentSongAdjustments.items) + 1) =>
            /\ maxDifference'[1] >= maxDifference[1]
            /\ maxDifference'[1] = maxDifference[1]
                  + (IF Len(slave'.currentSongAdjustments.items) > 3
                     THEN 25000 ELSE 0)]_vars

\* C16 witness: five adjustments on a history of ten samples whose
\* tolerance comes from the range and the average, not from a floor.
C16_Witness ==
    /\ Len(slave.currentSongAdjustments.items) = 5
    /\ Len(slave.currentSongDifferences.items) = 10
    /\ maxDifference[1] > 50000 + 45500
    /\ maxDifference[1] # 200000 + 50000

----------------------------------------------------------------------------
(* Claims about the controller thread's life, under SpecFair *)

\* C17: once stopSeeker has cleared sync and waits, the controller thread
\* begins no new iteration from the top of its loop, it ends, and
\* stopSeeker goes on to disconnect the Seeker and to discard it.
C17_StopTerminates ==
    /\ [][\A t \in Controllers :
            (At(t, "sl_top") /\ ~sync[SeekerOf(t)]) =>
               (stack'[t] = <<>> \/ stack'[t] = stack[t])]_vars
    /\ (At(0, "st_wait") ~> (seeker = 0 /\ \A t \in Controllers : ~Alive(t)))

\* C17 witness: stopSeeker has returned; the thread it waited for left
\* its loop by the while test.
C17_Witness ==
    /\ seeker = 0
    /\ At(0, "idle")
    /\ playerState = "stop"
    /\ \E k \in SeekerIds :
          /\ thread[k] # 0
          /\ ~sync[k]
          /\ tstat[thread[k]] = "dead"

\* the main thread is blocked in master.idle() while the master plays and
\* a Seeker with sync on exists (the -l option)
BlockedPlaying ==
    /\ At(0, "idle")
    /\ adjustLatency
    /\ playerState = "play"
    /\ seeker # 0
    /\ sync[seeker]

\* a controller thread is taking a sample of slave s
Measuring(s) ==
    \E t \in Controllers : At(t, "cd_measure") /\ Top(stack[t]).s = s

\* C18 as the spec states it: if from some time on the main thread stays
\* blocked in idle with the master playing and a Seeker on, every slave
\* is measured again and again.
C18_NeverStarved ==
    \A s \in Slaves : (<>[]BlockedPlaying) => []<>Measuring(s)

----------------------------------------------------------------------------
(* SpecRepl: the replicator for one slave, run by the main thread alone.   *)
(* Each call of syncPlaylists or syncPlayers is one step; the master       *)
(* daemon changes between calls.  The data of the queues and of the        *)
(* players is kept; the Seeker is left out (no -l option).                 *)

\* the files of the music directory
Tracks == {"a.mp3", "b.mp3"}

Queues == UNION {[1..n -> Tracks] : n \in 0..MaxQueue}

\* MPDClient.playlist(): one 'file: NAME' entry for each song of the queue
Playlist(q) == [i \in 1..Len(q) |-> <<"file: ", q[i]>>]

\* line 644: FILE_PREFIX_RE.sub('', song)
StripPrefix(song) == song[2]

\* The commands as the slave's daemon executes them.  A daemon is a
\* record: state, song (position from 0, -1 when there is none), queue,
\* far (its position is a second or more away from the master's).
MpdClear(d) == [d EXCEPT !.queue = <<>>, !.state = "stop", !.song = -1]

MpdAdd(d, file) == [d EXCEPT !.queue = Append(@, file)]

MpdAddId(d, file, pos) ==
    [d EXCEPT !.queue = InsertAt(@, pos, file),
              !.song = IF @ >= pos THEN @ + 1 ELSE @]

\* delete START:END removes the positions START..END-1; when the current
\* song is among them the song that takes its place is played, or the
\* player stops
MpdDelete(d, start, end) ==
    LET q == SubSeq(d.queue, 1, start) \o SubSeq(d.queue, end + 1, Len(d.queue))
    IN  IF d.song >= end THEN [d EXCEPT !.queue = q, !.song = @ - (end - start)]
        ELSE IF d.song >= start
        THEN IF start < Len(q) THEN [d EXCEPT !.queue = q, !.song = start]
             ELSE [d EXCEPT !.queue = q, !.song = -1, !.state = "stop"]
        ELSE [d EXCEPT !.queue = q]

\* seek SONGPOS TIME: a stopped player begins to play there
MpdSeek(d, song) ==
    [d EXCEPT !.song = song,
              !.state = IF @ = "stop" THEN "play" ELSE @,
              !.far = FALSE]

MpdPlay(d) ==
    IF d.queue = <<>> THEN d
    ELSE [d EXCEPT !.state = "play", !.song = IF @ = -1 THEN 0 ELSE @]

\* pause with no argument toggles between play and pause; a stopped
\* player stays stopped
MpdPause(d) ==
    [d EXCEPT !.state = IF @ = "play" THEN "pause"
                        ELSE IF @ = "pause" THEN "play" ELSE @]

MpdStop(d) == [d EXCEPT !.state = "stop", !.song = -1]

\* lines 264-267: connect() sets the attributes of initAttrs to None
Reconnected(c) ==
    [c EXCEPT !.hasBeenSynced = FALSE, !.playlist = <<>>,
              !.playlistVersion = 0, !.lastSong = -1]

\* plchanges VERSION: the songs of the master's queue that are new or at
\* another position than in the queue of that version (seen), in order
RECURSIVE Plchanges(_, _, _)
Plchanges(q, seen, pos) ==
    IF pos >= Len(q) THEN <<>>
    ELSE (IF pos >= Len(seen) \/ seen[pos + 1] # q[pos + 1]
          THEN <<[file |-> q[pos + 1], pos |-> pos]>> ELSE <<>>)
         \o Plchanges(q, seen, pos + 1)

\* lines 679-683: slave.addid for every change; a position beyond the end
\* of the slave's queue is an error, which ends the command list
RECURSIVE AddIds(_, _)
AddIds(d, changes) ==
    IF changes = <<>> THEN [d |-> d, ok |-> TRUE]
    ELSE IF changes[1].pos > Len(d.queue) THEN [d |-> d, ok |-> FALSE]
    ELSE AddIds(MpdAddId(d, changes[1].file, changes[1].pos), Tail(changes))

\* lines 641-644: slave.clear(), then slave.add for every song
RECURSIVE Adds(_, _)
Adds(d, playlist) ==
    IF playlist = <<>> THEN d
    ELSE Adds(MpdAdd(d, StripPrefix(playlist[1])), Tail(playlist))

FullSyncAddsNothing(d, playlist) == MpdClear(d)

FullSync(d, playlist) == Adds(MpdClear(d), playlist)


\* line 744, with what plchanges will answer for that version
Synced(c, m) == [c EXCEPT !.playlistVersion = m.version, !.seen = m.queue]

\* the except clause of syncPlayer (lines 844-848)
Caught(w) == [w EXCEPT !.exc = FALSE, !.r = "False", !.tries = @ + 1]

Send(w, d, cmds) == [w EXCEPT !.d = d, !.sent = @ \o cmds]

\* lines 515-569 as the main thread uses them: the song-change reset,
\* whose slave.playlist[int(slave.song)] raises when the playlist
\* attribute does not reach the song, and the size of the difference
\* ("none" when the slave reports no elapsed time)
CurrentDifference(w) ==
    LET changed == w.c.lastSong # w.d.song
        w1 == IF changed THEN [w EXCEPT !.c.lastSong = w.d.song] ELSE w
    IN  IF changed /\ (w.d.song < 0 \/ w.d.song >= Len(w.c.playlist))
        THEN [w |-> [w1 EXCEPT !.exc = TRUE], value |-> "none"]
        ELSE [w |-> w1,
              value |-> IF w.d.state = "stop" THEN "none"
                        ELSE IF w.d.far THEN "large" ELSE "small"]

\* lines 801-829: seek, play(initial=True) (a command list of seek and
\* play, lines 330-365), the play latency
PlayInitial(w, f) ==
    IF f = "seek" \/ w.m.song < 0 \/ w.m.song >= Len(w.d.queue)
    THEN [w EXCEPT !.sent = @ \o <<"seek">>, !.r = "False"]
    ELSE LET d1 == MpdSeek(w.d, w.m.song)
             d2 == MpdPlay(MpdSeek(d1, d1.song))
             w2 == Send(w, d2, <<"seek", "seek", "play">>)
             cd == CurrentDifference(w2)
         IN  IF f = "play" THEN [w2 EXCEPT !.r = "False"]
             ELSE IF cd.w.exc THEN Caught(cd.w)
             ELSE IF cd.value = "none" \/ f = "nolatency"
             THEN [Send(cd.w, MpdStop(cd.w.d), <<"stop">>) EXCEPT !.r = "False"]
             ELSE [cd.w EXCEPT !.r = "True"]

RECURSIVE SyncPlaylists(_, _, _), SyncPlayer(_, _, _)

\* lines 608-747 for the one slave.  f names what goes wrong in this call:
\* "reconnect" (checkConnection returns False), "batch" (the command list
\* of the full sync raises), "noresult" (it returns nothing), "protocol"
\* (ProtocolError at line 687), or "none".  A slave that has been synced
\* and whose playlistVersion is None (0 here) makes line 671 send plchanges
\* with "None" for the version, which the daemon refuses: the call raises.
SyncPlaylists(w, depth, f) ==
    IF depth > MaxDepth THEN [w EXCEPT !.exc = TRUE]
    ELSE IF f = "reconnect"
    THEN [w EXCEPT !.c = Reconnected(@), !.exc = TRUE]
    ELSE IF ~w.c.hasBeenSynced
    THEN LET mine == Playlist(w.m.queue)
             c1 == [w.c EXCEPT !.playlist = Playlist(w.d.queue)]
         IN  IF c1.playlist # mine
             THEN IF f = "batch"
                  THEN [Send(w, MpdClear(w.d), <<"clear">>)
                           EXCEPT !.c = c1, !.exc = TRUE]
                  ELSE LET w1 == [Send(w, FullSync(w.d, mine),
                                       <<"clear">> \o [i \in 1..Len(mine) |-> "add"])
                                     EXCEPT !.c = c1]
                       IN  IF f = "noresult" THEN w1
                           ELSE [w1 EXCEPT
                                   !.c = Synced([@ EXCEPT !.hasBeenSynced = TRUE], w.m)]
             ELSE [w EXCEPT !.c = Synced([c1 EXCEPT !.hasBeenSynced = TRUE], w.m)]
    ELSE IF w.c.playlistVersion = 0 THEN [w EXCEPT !.exc = TRUE]
    ELSE LET changes == Plchanges(w.m.queue, w.c.seen, 0)
             a == AddIds(w.d, changes)
             w1 == Send(w, a.d, [i \in 1..Len(changes) |-> "addid"])
             mlen == Len(w.m.queue)
             slen == Len(a.d.queue)
             w2 == IF mlen = 0 THEN Send(w1, MpdClear(a.d), <<"clear">>)
                   ELSE IF mlen < slen
                   THEN Send(w1, MpdDelete(a.d, mlen - 1, slen - 1), <<"delete">>)
                   ELSE w1
             w3 == IF w2.d.state # w2.m.state
                   THEN SyncPlayer(w2, depth + 1, "none") ELSE w2
         IN  IF ~a.ok THEN [w1 EXCEPT !.exc = TRUE]
             ELSE IF f = "protocol" THEN w1
             ELSE IF changes = <<>> THEN w
             ELSE [w3 EXCEPT !.c = Synced(@, w.m), !.exc = FALSE, !.r = w.r,
                             !.tries = w.tries]

\* lines 769-851.  f names what goes wrong in this call: "status" (a
\* status read or ping raises), "seek" (slave.seek raises), "play"
\* (slave.play returns nothing), "nolatency" (no play latency), "cmd"
\* (pause or stop raises), or "none".
SyncPlayer(w, depth, f) ==
    LET w0 == [w EXCEPT !.tries = 0, !.r = "None"]
    IN  IF depth > MaxDepth THEN Caught(w0)
        ELSE IF ~(w0.tries < 5) THEN w0
        ELSE IF f = "status" THEN Caught(w0)
        ELSE IF w0.m.state = "play"
        THEN LET w1 == IF w0.c.playlist = <<>>
                       THEN SyncPlaylists(w0, depth + 1, "none") ELSE w0
                 cd == CurrentDifference(w1)
             IN  IF w1.exc THEN Caught(w1)
                 ELSE IF w1.d.state = "play" /\ w1.d.song = w1.m.song
                 THEN IF cd.w.exc THEN Caught(cd.w)
                      ELSE IF cd.value # "large" THEN [cd.w EXCEPT !.r = "True"]
                      ELSE PlayInitial(cd.w, f)
                 ELSE PlayInitial(w1, f)
        ELSE IF f = "cmd" THEN Caught(w0)
        ELSE IF w0.m.state = "pause"
        THEN [Send(w0, MpdPause(w0.d), <<"pause">>) EXCEPT !.r = "True"]
        ELSE [Send(w0, MpdStop(w0.d), <<"stop">>) EXCEPT !.r = "True"]

\* the state a call begins in: nothing sent yet, nothing raised
World(c) ==
    [m |-> master, d |-> mpd, c |-> c, sent |-> <<>>, exc |-> FALSE,
     r |-> "None", tries |-> 0]

PlaylistFailures == {"none", "reconnect", "batch", "noresult", "protocol"}

PlayerFailures == {"none", "status", "seek", "play", "nolatency", "cmd"}

\* a player as a daemon can report it: a current song when it plays or is
\* paused, none when it is stopped
PlayerOk(state, song, queue) ==
    IF state = "stop" THEN song = -1 ELSE song \in 0..(Len(queue) - 1)

ReplInit ==
    /\ \E q \in Queues, st \in States, sg \in -1..(MaxQueue - 1) :
          /\ PlayerOk(st, sg, q)
          /\ master = [state |-> st, song |-> sg, queue |-> q, version |-> 1]
    /\ \E q \in Queues, st \in States, sg \in -1..(MaxQueue - 1), far \in BOOLEAN :
          /\ PlayerOk(st, sg, q)
          /\ far => st = "play"
          /\ mpd = [state |-> st, song |-> sg, queue |-> q, far |-> far]
    /\ client = [hasBeenSynced |-> FALSE, playlist |-> <<>>,
                 playlistVersion |-> 0, seen |-> <<>>, lastSong |-> -1]
    /\ call = [kind |-> "none", sent |-> <<>>, ret |-> "None", tries |-> 0,
               quiet |-> 0]

\* the result of a call becomes the state; an exception that nothing
\* caught ends the program (ret = "raised")
Returned(w, kind, quiet) ==
    /\ Len(w.d.queue) <= MaxQueue
    /\ mpd' = w.d
    /\ client' = w.c
    /\ call' = [kind |-> kind, sent |-> w.sent,
                ret |-> IF w.exc THEN "raised" ELSE w.r,
                tries |-> w.tries, quiet |-> quiet]
    /\ UNCHANGED <<W, progVars, ctlVars, archVars, maxDifference, master, track,
                   proc>>

\* lines 1346-1349: a 'playlist' notification: master.syncPlaylists().  The
\* slave's connection may have dropped since the last call (drop); then
\* checkConnection reconnects and connect() resets the attributes.
playlist_changed ==
    /\ call.ret # "raised"
    /\ \E f \in PlaylistFailures, drop \in BOOLEAN :
          /\ drop => f = "none"
          /\ Returned(SyncPlaylists(World(IF drop THEN Reconnected(client) ELSE client),
                                 1, f),
                   "syncPlaylists", 0)

\* lines 1350-1353 and 757-758: a 'player' notification:
\* master.syncPlayers(), which calls syncPlayer for the slave
player_changed ==
    /\ call.ret # "raised"
    /\ \E f \in PlayerFailures, drop \in BOOLEAN :
          /\ drop => f = "none"
          /\ Returned(SyncPlayer(World(IF drop THEN Reconnected(client) ELSE client),
                              1, f),
                   "syncPlayer", 0)

\* lines 604-606: syncPlaylists, then syncPlayers, with nothing going
\* wrong; quiet counts the calls in a row the master did not change between
syncAll ==
    /\ call.ret # "raised"
    /\ LET w1 == SyncPlaylists(World(client), 1, "none")
           w2 == IF w1.exc THEN w1 ELSE SyncPlayer(w1, 1, "none")
       IN  Returned(w2, "syncAll", IF call.quiet >= 1 THEN 2 ELSE 1)

\* the master's daemon: its queue is edited (the version goes up) or its
\* player changes
master_changes ==
    /\ call.ret # "raised"
    /\ \E q \in Queues, st \in States, sg \in -1..(MaxQueue - 1) :
          /\ PlayerOk(st, sg, q)
          /\ q # master.queue \/ st # master.state \/ sg # master.song
          /\ q # master.queue => master.version < MaxVersion
          /\ master' = [state |-> st, song |-> sg, queue |-> q,
                        version |-> IF q # master.queue THEN master.version + 1
                                    ELSE master.version]
    /\ call' = [kind |-> "none", sent |-> <<>>, ret |-> "None", tries |-> 0,
                quiet |-> 0]
    /\ UNCHANGED <<W, progVars, ctlVars, archVars, maxDifference, mpd, client,
                   track, proc>>

SpecReplInit ==
    W = AveragedList(0) /\ StatProgInit /\ CtlIdle /\ maxDifference = <<>>
        /\ ArchIdle /\ ReplInit /\ StartIdle

SpecRepl ==
    SpecReplInit
        /\ [][playlist_changed \/ player_changed \/ syncAll \/ master_changes]_vars

----------------------------------------------------------------------------
(* Claims about the replicator, under SpecRepl *)

\* C12 as the spec states it: when the replicator (syncPlaylists, then
\* syncPlayers) is called a second time in a row and the master has not
\* changed in between, the second call sends no write command to the
\* slave.
C12_SecondCallSilent ==
    (call.kind = "syncAll" /\ call.quiet = 2 /\ call.ret # "raised") =>
        call.sent = <<>>

\* C13: a step that replicates the queue for the first time (hasBeenSynced
\* becomes true) leaves the slave's queue as long as the master's, and
\* song for song the same.
C13_FullReplication ==
    [][(~client.hasBeenSynced /\ client'.hasBeenSynced) =>
          /\ Len(mpd'.queue) = Len(master.queue)
          /\ mpd'.queue = master.queue
          /\ client'.playlistVersion = master.version]_vars

\* C13 witness: syncPlaylists has just cleared a queue that differed and
\* added the master's two songs.
C13_Witness ==
    /\ call.kind = "syncPlaylists"
    /\ call.sent = <<"clear", "add", "add">>
    /\ client.hasBeenSynced
    /\ client.playlist # <<>>
    /\ Len(mpd.queue) = 2
    /\ mpd.queue = master.queue

\* C14 as the spec states it: when syncPlayer has returned True the slave
\* is in the master's state: playing the master's song, paused, or
\* stopped.
C14_StateMatches ==
    (call.kind = "syncPlayer" /\ call.ret = "True") =>
        /\ mpd.state = master.state
        /\ master.state = "play" => mpd.song = master.song

\* C15 as the spec states it: syncPlayer gives up through its except
\* clause only after 5 tries.
C15_FiveAttempts ==
    (call.kind = "syncPlayer" /\ call.ret = "False" /\ call.tries > 0) =>
        call.tries = 5

----------------------------------------------------------------------------
(* SpecArch: the per-song archives song_adjustments and song_differences   *)
(* of one slave.  An archive entry holds the list object it was given: the *)
(* newest entry is the very list the slave is using, so what is done to    *)
(* that list shows in the entry.                                           *)

\* the newest entry of an archive, seen through the list object it holds
AliasedNever(archive, list) == archive

Aliased(archive, list) ==
    IF archive = <<>> THEN archive
    ELSE [archive EXCEPT ![Len(archive)].list = list]

\* lines 547-550: an entry for the song that begins, holding the slave's
\* new list
Archive(archive, song, list) ==
    Append(archive, [file |-> song, list |-> list])

\* lines 529-569: one measurement of the slave by _current_difference
arch_measure ==
    /\ Len(slave.currentSongDifferences.items) < MaxKept
    /\ \E hasElapsed \in BOOLEAN :
          LET changed == slave.lastSong # daemon.song
              s1 == SongReset(slave, daemon.song)
              s2 == Sample(s1, hasElapsed, daemon.drift)
              a1 == IF changed
                    THEN Archive(song_adjustments, daemon.song, s1.currentSongAdjustments)
                    ELSE song_adjustments
              d1 == IF changed
                    THEN Archive(song_differences, daemon.song, s1.currentSongDifferences)
                    ELSE song_differences
          IN  /\ slave' = s2
              /\ song_adjustments' = Aliased(a1, s2.currentSongAdjustments)
              /\ song_differences' = Aliased(d1, s2.currentSongDifferences)
    /\ UNCHANGED <<W, progVars, replVars, maxDifference, ctl, daemon, track, proc>>

\* lines 1022-1052: one seek of the slave by _reseek_player, which
\* succeeds or fails
arch_reseek ==
    /\ slave.lastSong = daemon.song
    /\ Len(slave.adjustments.items) < MaxKept
    /\ \E ok \in BOOLEAN, p \in PingVals :
          LET s1 == IF ok THEN SeekSucceeded(slave, daemon.drift)
                    ELSE SeekFailedBookkeeping(slave, p)
          IN  /\ slave' = s1
              /\ song_adjustments' = Aliased(song_adjustments, s1.currentSongAdjustments)
              /\ song_differences' = Aliased(song_differences, s1.currentSongDifferences)
    /\ UNCHANGED <<W, progVars, replVars, maxDifference, ctl, daemon, track, proc>>

SpecArchInit ==
    W = AveragedList(0) /\ StatProgInit /\ CtlInit /\ maxDifference = <<>>
        /\ ReplIdle /\ ArchIdle /\ StartIdle

SpecArch == SpecArchInit /\ [][arch_measure \/ arch_reseek \/ song_changes]_vars

\* a measurement that finds the slave on another song than the one whose
\* lists it holds, the archives having an entry for that one
ArchReset ==
    /\ slave.lastSong # daemon.song
    /\ slave.lastSong # 0
    /\ slave'.lastSong = daemon.song

----------------------------------------------------------------------------
(* Claims about the decision and the correction, under SpecCtl *)

\* C24 as the spec states it: in an iteration a seek is issued for the
\* slave if and only if currentSongShouldSeek is true, at least 3
\* differences are held, the absolute average of the differences exceeds
\* the tolerance and the absolute newest difference exceeds it (all taken
\* after the sample of the iteration).
C24_ReseekIssued ==
    [][LET d == slave'.currentSongDifferences
           M == max_difference(slave', ctl'.pings)
           four == /\ slave'.currentSongShouldSeek
                   /\ Len(d.items) >= 3
                   /\ Abs(d.average) > M
                   /\ Abs(d.items[1]) > M
       IN  /\ (ctl.pc = "rn" /\ Len(d.items) = Len(slave.currentSongDifferences.items) + 1)
                => (ctl'.pc = "rp" <=> four)
           /\ (ctl.pc = "rn" /\ ctl'.pc = "rp") => four
           /\ (ctl.pc = "rp" /\ ctl'.pc = "rn") => ctl'.issued # <<>>]_vars

\* C24 amended: _reseek_player is called in an iteration if and only if
\* the iteration recorded a sample and the four conditions hold after it;
\* the seek is then issued if and only if the position elapsed - adjustBy
\* is not negative.
C24_ReseekWarranted ==
    [][LET d == slave'.currentSongDifferences
           old == IF slave.lastSong # daemon.song THEN <<>>
                  ELSE slave.currentSongDifferences.items
           recorded == d.items = <<daemon.drift>> \o old
           M == max_difference(slave', ctl'.pings)
           four == /\ slave'.currentSongShouldSeek
                   /\ Len(d.items) >= 3
                   /\ Abs(d.average) > M
                   /\ Abs(d.items[1]) > M
       IN  /\ ctl.pc = "rn" => (ctl'.pc = "rp" <=> (recorded /\ four))
           /\ (ctl.pc = "rp" /\ ctl'.pc = "rn") =>
                 (ctl'.issued # <<>> <=> ctl.elapsed - ctl'.adjustBy[1] >= 0)]_vars

\* C24 witness: an iteration has left the slave alone although the average
\* of at least 3 differences is over the tolerance, the newest difference
\* being within it.
C24_Witness ==
    /\ ctl.pc = "rn"
    /\ ctl.position = <<>>
    /\ slave.latency = <<>>
    /\ Len(slave.currentSongDifferences.items) >= 3
    /\ Abs(slave.currentSongDifferences.average) > max_difference(slave, ctl.pings)
    /\ Abs(slave.currentSongDifferences.items[1]) <= max_difference(slave, ctl.pings)

\* C27: for a slave given a latency on the command line, every adjustment
\* _calc_adjustment returns is that latency, whatever the differences,
\* the pings and the adjustments made before are: it is not replaced by
\* the ping average, its sign is kept, the position is elapsed - latency
\* and a seek that is issued is for that position.
C27_StaticLatency ==
    [][(ctl.pc = "rp" /\ ctl'.pc = "rn" /\ slave.latency # <<>>) =>
          /\ ctl'.adjustBy = slave.latency
          /\ ctl'.position = <<ctl.elapsed - slave.latency[1]>>
          /\ ctl'.issued \in {<<>>, <<Round3(ctl.elapsed - slave.latency[1])>>}
          /\ Len(slave'.adjustments.items) > Len(slave.adjustments.items) =>
                slave'.adjustments.items[1] = slave.latency[1]]_vars

\* C27 witness: a slave with a latency over MAX_ADJUSTMENT was sought to
\* elapsed - latency after differences of the other sign, with
\* adjustments made before.
C27_Witness ==
    /\ ctl.pc = "rn"
    /\ slave.latency = <<400000>>
    /\ ctl.adjustBy = <<400000>>
    /\ ctl.issued = <<ctl.elapsed - 400000>>
    /\ Len(slave.currentSongAdjustments.items) >= 2
    /\ slave.currentSongDifferences.items = <<>>

\* C28: without a latency, the adjustment chosen before the limit and the
\* sign is: with no adjustment of the song yet, 0.75 times the average of
\* adjustments if the slave holds more than 5 of them, else the ping
\* average; with 1 to 5 adjustments of the song, the average difference;
\* with more than 5, the ping average on odd counts and the average
\* difference on even counts.  What is returned is that choice after the
\* limit (the ping average in place of a choice over MAX_ADJUSTMENT) and
\* the sign (the ping average as it is, anything else negated).
C28_Choice ==
    [][(ctl.pc = "rp" /\ ctl'.pc = "rn" /\ slave.latency = <<>>) =>
          LET n == Len(slave.currentSongAdjustments.items)
              pings == slave.pings.average
              differences == slave.currentSongDifferences.average
              chosen ==
                  IF n = 0
                  THEN IF Len(slave.adjustments.items) > 5
                       THEN Quot(3 * slave.adjustments.average, 4)
                       ELSE pings
                  ELSE IF n <= 5 THEN differences
                  ELSE IF n % 2 = 1 THEN pings
                  ELSE differences
          IN  ctl'.adjustBy =
                  <<IF Abs(chosen) > 300000 \/ chosen = pings
                    THEN pings ELSE -chosen>>]_vars

\* C28 witness: the seventh adjustment of a song, an odd count over 5, was
\* made by the ping average although the average difference is another
\* value within the limit.
C28_Witness ==
    /\ ctl.pc = "rn"
    /\ slave.latency = <<>>
    /\ Len(slave.currentSongAdjustments.items) = 8
    /\ ctl.adjustBy = <<2000>>
    /\ slave.currentSongAdjustments.items[7] # 2000
    /\ slave.currentSongAdjustments.items[8] = 2000

\* C30: without a latency, an adjustment equal to the ping average is used
\* as it is (the position is elapsed - ping average) and
\* currentSongDifferences is empty once it is computed, whether the seek
\* is then skipped, fails or succeeds; any other adjustment is the
\* negated choice, so that a reseek by the average difference is for the
\* position elapsed + average difference and records the negated average
\* difference as the adjustment.
C30_SignAndClear ==
    [][(ctl.pc = "rp" /\ ctl'.pc = "rn" /\ slave.latency = <<>>) =>
          LET n == Len(slave.currentSongAdjustments.items)
              a == ctl'.adjustBy[1]
              pings == slave.pings.average
              differences == slave.currentSongDifferences.average
              byDifference == /\ n >= 1
                              /\ n <= 5 \/ n % 2 = 0
                              /\ Abs(differences) <= 300000
                              /\ differences # pings
              succeeded == Len(slave'.adjustments.items)
                               > Len(slave.adjustments.items)
          IN  /\ ctl'.position = <<ctl.elapsed - a>>
              /\ a = pings => slave'.currentSongDifferences.items = <<>>
              /\ a # pings =>
                    a \in {-differences, -Quot(3 * slave.adjustments.average, 4)}
              /\ byDifference =>
                    /\ ctl'.position = <<ctl.elapsed + differences>>
                    /\ succeeded =>
                          /\ slave'.adjustments.items[1] = -differences
                          /\ slave'.currentSongAdjustments.items[n + 1] = -differences]_vars

\* C30 witness: the ping average was chosen for a position that is
\* negative, no seek was issued and the differences are gone.
C30_Witness ==
    /\ ctl.pc = "rn"
    /\ slave.latency = <<>>
    /\ ctl.adjustBy = <<slave.pings.average>>
    /\ ctl.position # <<>>
    /\ ctl.position[1] < 0
    /\ ctl.issued = <<>>
    /\ slave.currentSongAdjustments.items # <<>>
    /\ slave.currentSongDifferences.items = <<>>

----------------------------------------------------------------------------
(* The tolerance before the increase, under SpecTol *)

\* C25: before the increase for the adjustments of the song, the tolerance
\* is range/4 + |average|/2 with 10 or more differences and range/2 with 5
\* to 9, both raised to max(0.030, half the largest size among the newest
\* 10 differences); with fewer than 5 differences and a slave ping average
\* that is not zero, 30 times the larger ping average kept within 0.030
\* and 0.200; otherwise 0.200.  It is never below 0.030, and what
\* _max_difference returns is that value plus the increase, rounded to
\* the millisecond.
C25_Tolerance ==
    LET d == slave.currentSongDifferences
        n == Len(d.items)
        k == Len(slave.currentSongAdjustments.items)
        newest == SubSeq(d.items, 1, IF n > 10 THEN 10 ELSE n)
        sizes == {Abs(newest[i]) : i \in 1..Len(newest)}
        max_abs == CHOOSE x \in sizes : \A y \in sizes : y <= x
        atLeast == IF 30000 >= max_abs \div 2 THEN 30000 ELSE max_abs \div 2
        byRange == IF n >= 10 THEN Quot(d.range, 4) + Quot(Abs(d.average), 2)
                   ELSE Quot(d.range, 2)
        byPing == 30 * (IF ctl.pings.average >= slave.pings.average
                        THEN ctl.pings.average ELSE slave.pings.average)
        before ==
            IF n >= 5 THEN (IF byRange >= atLeast THEN byRange ELSE atLeast)
            ELSE IF slave.pings.average # 0
            THEN (IF byPing < 30000 THEN 30000
                  ELSE IF byPing > 200000 THEN 200000 ELSE byPing)
            ELSE 200000
    IN  /\ before >= 30000
        /\ maxDifference = <<Round3(before + IF k > 3 THEN 25000 * (k - 3) ELSE 0)>>
        /\ maxDifference[1] >= 30000

\* C25 witness: ten differences of 37 ms, whose range is 0 and whose
\* average is under the minimum: the tolerance is the minimum of 0.030.
C25_Witness ==
    /\ Len(slave.currentSongDifferences.items) >= 10
    /\ slave.currentSongDifferences.range = 0
    /\ slave.currentSongAdjustments.items = <<>>
    /\ maxDifference = <<30000>>

----------------------------------------------------------------------------
(* The one-song specification: the iterations of _syncLoop on one song of *)
(* one slave without latency, the master a minute into the song, every    *)
(* status read answering and every seek succeeding                         *)

\* the difference the slave shows at an iteration: a local file settling
\* at 0.16 s, a stream anywhere between -0.4 and 0.5 s, a slave within
\* 0.1 s
Drifts(scenario, iteration) ==
    IF scenario = "local"
    THEN IF iteration <= 6
         THEN {<<180000, 150000, 170000, 160000, 155000, 145000>>[iteration]}
         ELSE {}
    ELSE IF scenario = "hopeless" THEN {-400000, 500000}
    ELSE {-100000, 100000}

SpecTrackInit ==
    /\ W = AveragedList(0)
    /\ StatProgInit
    /\ ReplIdle
    /\ ArchIdle
    /\ slave = InitSlave(<<>>, 2000)
    /\ ctl = [pc |-> "rn", pings |-> InitSlave(<<>>, 2000).pings,
              elapsed |-> 60000000, adjustBy |-> <<>>, position |-> <<>>,
              issued |-> <<>>]
    /\ daemon = [song |-> 1, drift |-> 0]
    /\ maxDifference = <<>>
    /\ \E scenario \in {"local", "hopeless", "bounded"} :
          track = [scenario |-> scenario, iteration |-> 0]
    /\ proc = [pc |-> "idle"]

\* lines 944-965: one iteration of _syncLoop for the slave, the master
\* playing: _reseek_necessary (1133-1164) and, when it returns True,
\* _reseek_player (994-1052) with a seek that succeeds
track_iteration ==
    /\ track.iteration < MaxIterations
    /\ Len(slave.currentSongDifferences.items) < MaxSamples
    /\ \E d \in Drifts(track.scenario, track.iteration + 1) :
         LET p == 2000
             s1 == [slave EXCEPT !.pings = ALInsert(ALInsert(@, 0, p), 0, p)]
             mp == ALInsert(ctl.pings, 0, p)
             s2 == Sample(SongReset(s1, daemon.song), TRUE, d)
             r == calc_adjustment(s2)
             position == ctl.elapsed - r.adjustBy
         IN  /\ daemon' = [daemon EXCEPT !.drift = d]
             /\ maxDifference' = <<max_difference(s2, mp)>>
             /\ IF ~Necessary(s2, mp, TRUE)
                THEN /\ slave' = s2
                     /\ ctl' = [ctl EXCEPT !.pings = mp, !.adjustBy = <<>>,
                                           !.position = <<>>, !.issued = <<>>]
                ELSE IF PositionNegative(position)
                THEN /\ slave' = r.slave
                     /\ ctl' = [ctl EXCEPT !.pings = mp,
                                           !.adjustBy = <<r.adjustBy>>,
                                           !.position = <<position>>,
                                           !.issued = <<>>]
                ELSE /\ slave' = SeekSucceeded(r.slave, r.adjustBy)
                     /\ ctl' = [ctl EXCEPT !.pings = mp,
                                           !.adjustBy = <<r.adjustBy>>,
                                           !.position = <<position>>,
                                           !.issued = <<Round3(position)>>]
    /\ track' = [track EXCEPT !.iteration = @ + 1]
    /\ UNCHANGED <<W, progVars, replVars, archVars, proc>>

SpecTrack == SpecTrackInit /\ [][track_iteration]_vars

\* C21 as the spec states it: on the local file (differences 0.180,
\* 0.150, 0.170, 0.160, 0.155, 0.145 s, ping average 0.002 s, no
\* adjustment made before) the first seek of the song is made once at
\* least 5 samples are held, with a tolerance of about 0.030 s and an
\* adjustment of about -0.160 s, the negated average of the samples.
C21_FirstReseek ==
    (/\ track.scenario = "local"
     /\ ctl.issued # <<>>
     /\ Len(slave.currentSongAdjustments.items) = 1) =>
        /\ track.iteration >= 5
        /\ Abs(maxDifference[1] - 30000) <= 5000
        /\ Abs(ctl.adjustBy[1] + 160000) <= 5000

\* C21 amended: the first seek of the song is made at the third sample,
\* with the tolerance 0.060 s (30 times the ping average) and the ping
\* average 0.002 s itself as the adjustment, to the position elapsed -
\* 0.002; the second one is made at the sixth sample, again with the
\* tolerance 0.060 s, by -0.153 s, the negated average of the three
\* samples taken since the first seek.
C21_FirstReseekByPing ==
    track.scenario = "local" =>
        /\ track.iteration < 3 =>
              /\ ctl.issued = <<>>
              /\ slave.currentSongAdjustments.items = <<>>
        /\ track.iteration = 3 =>
              /\ maxDifference = <<60000>>
              /\ ctl.adjustBy = <<2000>>
              /\ ctl.issued = <<ctl.elapsed - 2000>>
              /\ slave.currentSongAdjustments.items = <<2000>>
        /\ track.iteration \in {4, 5} =>
              /\ ctl.issued = <<>>
              /\ slave.currentSongAdjustments.items = <<2000>>
        /\ track.iteration = 6 =>
              /\ maxDifference = <<60000>>
              /\ ctl.adjustBy = <<-153333>>
              /\ ctl.issued = <<Round3(ctl.elapsed + 153333)>>
              /\ slave.currentSongAdjustments.items = <<2000, -153333>>

\* C21 witness: the six samples of the local file have been taken.
C21_Witness ==
    /\ track.scenario = "local"
    /\ track.iteration = 6
    /\ Len(slave.adjustments.items) = 2
    /\ slave.currentSongDifferences.items = <<>>

C29_Limit ==
    (slave.latency = <<>> /\ ctl.adjustBy # <<>> /\ ctl.issued # <<>>) =>
        LET a == ctl.adjustBy[1]
            k == Len(slave.currentSongAdjustments.items) - 1
            differences == slave.currentSongDifferences.average
            byDifference == k >= 1 /\ (k <= 5 \/ k % 2 = 0)
        IN  /\ Abs(a) <= 300000 \/ a = slave.pings.average
            /\ (byDifference /\ Abs(differences) > 300000) =>
                  a = slave.pings.average
            /\ (byDifference /\ Abs(differences) <= 300000
                             /\ differences # slave.pings.average) =>
                  a = -differences

\* C29 witness: the average of the differences was over 0.300 s at the
\* third adjustment of the song, which was made by the ping average.
C29_Witness ==
    /\ slave.latency = <<>>
    /\ ctl.issued # <<>>
    /\ Len(slave.currentSongAdjustments.items) = 3
    /\ slave.currentSongDifferences.average = 500000
    /\ ctl.adjustBy = <<2000>>
    /\ slave.adjustments.items[1] = 2000


----------------------------------------------------------------------------
(* The start of the program: main up to syncAll, and the exit status *)

\* the command lines (-m with a host or without it, -s with up to
\* NumSlaves hosts) and the daemons that accept a connection
SpecMainInit ==
    /\ W = AveragedList(0)
    /\ StatProgInit
    /\ CtlIdle
    /\ maxDifference = <<>>
    /\ ReplIdle
    /\ ArchIdle
    /\ track = [scenario |-> "none", iteration |-> 0]
    /\ \E m \in {<<>>, <<"m">>}, n \in 0..NumSlaves, up \in SUBSET {"m", "s1", "s2"} :
       \E s \in [1..n -> {"s1", "s2"}] :
          proc = [pc |-> "main", master |-> m, slaves |-> s, up |-> up,
                  connected |-> <<>>, ret |-> "", status |-> <<>>]

\* lines 1306-1336: main from the check of the arguments up to the call
\* of syncAll; addSlave (581-600) appends the slaves whose connect does
\* not raise
main ==
    /\ proc.pc = "main"
    /\ LET connected == SelectSeq(proc.slaves, LAMBDA h : h \in proc.up)
       IN  IF proc.master = <<>> \/ proc.slaves = <<>>
           THEN proc' = [proc EXCEPT !.pc = "returned", !.ret = "False"]
           ELSE IF proc.master[1] \notin proc.up
           THEN proc' = [proc EXCEPT !.pc = "returned", !.ret = "False"]
           ELSE IF connected = <<>>
           THEN proc' = [proc EXCEPT !.pc = "returned", !.ret = "False"]
           ELSE proc' = [proc EXCEPT !.pc = "syncAll", !.connected = connected]
    /\ UNCHANGED <<W, progVars, ctlVars, maxDifference, replVars, archVars, track>>

\* lines 1371-1372: sys.exit(main()).  sys.exit takes None and the integer
\* 0 for success, and False is the integer 0.
main_exit ==
    /\ proc.pc = "returned"
    /\ proc' = [proc EXCEPT
          !.pc = "exited",
          !.status = <<IF proc.ret \in {"None", "False"} THEN 0 ELSE 1>>]
    /\ UNCHANGED <<W, progVars, ctlVars, maxDifference, replVars, archVars, track>>

SpecMain == SpecMainInit /\ [][main \/ main_exit]_vars

\* C23 as the spec states it: the program exits with a status that is not
\* 0 when no master is given with -m, when no slave is given with -s, when
\* the master cannot be connected and when no slave could be connected.
C23_ErrorStatus ==
    (/\ proc.pc = "exited"
     /\ \/ proc.master = <<>>
        \/ proc.slaves = <<>>
        \/ proc.master[1] \notin proc.up
        \/ \A i \in 1..Len(proc.slaves) : proc.slaves[i] \notin proc.up) =>
        proc.status[1] # 0

----------------------------------------------------------------------------
(* Claims about the bookkeeping of a reseek, under SpecCtl *)

\* C31 as the spec states it: without a latency, the first adjustment of
\* a song for a slave that holds more than 5 adjustments is 0.75 times the
\* average of adjustments (when that is within MAX_ADJUSTMENT): the value
\* used and recorded has the sign of the average of adjustments.
C31_FirstOfTrackKeepsSign ==
    [][(/\ ctl.pc = "rp"
        /\ ctl'.pc = "rn"
        /\ slave.latency = <<>>
        /\ slave.currentSongAdjustments.items = <<>>
        /\ Len(slave.adjustments.items) > 5
        /\ Abs(Quot(3 * slave.adjustments.average, 4)) <= 300000) =>
          /\ ctl'.adjustBy = <<Quot(3 * slave.adjustments.average, 4)>>
          /\ ctl'.adjustBy[1] * slave.adjustments.average >= 0
          /\ Len(slave'.adjustments.items) > Len(slave.adjustments.items) =>
                slave'.adjustments.items[1] * slave.adjustments.average >= 0]_vars


----------------------------------------------------------------------------
(* SpecBook: the lists of one slave over many calls of _reseek_player, on a *)
(* playlist that repeats.  The adjustment handed in alternates in sign, as  *)
(* the negation of lines 1122-1129 makes it, so that the entries of a list  *)
(* are told apart.                                                          *)

\* _reseek_player ends in one of three ways: ctl.pc is "skipped" (line
\* 1013), "failed" (line 1040) or "seeked" (line 1052)
SpecBookInit ==
    /\ W = AveragedList(0)
    /\ StatProgInit
    /\ OtherIdle
    /\ slave = InitSlave(<<>>, 2000)
    /\ ctl = [pc |-> "rp", pings |-> InitSlave(<<>>, 2000).pings,
              elapsed |-> 0, adjustBy |-> <<>>, position |-> <<>>,
              issued |-> <<>>]
    /\ daemon = [song |-> 1, drift |-> 10000]

\* lines 534-544, then 994-1052: the reset of the measurement that comes
\* before any seek, then one call of _reseek_player
book_reseek ==
    /\ Len(slave.fileTypeAdjustments.items) < MaxSeeks
    /\ LET s0 == SongReset(slave, daemon.song)
           adjustBy == IF Len(slave.adjustments.items) % 2 = 0
                       THEN 2000 ELSE -2000
       IN  /\ Len(s0.currentSongAdjustments.items) < MaxAdjust
           /\ \E elapsed \in ElapsedVals :
                LET position == elapsed - adjustBy
                IN  IF PositionNegative(position)
                    THEN /\ slave' = s0
                         /\ ctl' = [ctl EXCEPT !.pc = "skipped",
                                               !.elapsed = elapsed,
                                               !.adjustBy = <<adjustBy>>,
                                               !.position = <<position>>,
                                               !.issued = <<>>]
                    ELSE \E ok \in BOOLEAN, p \in PingVals :
                           /\ slave' = IF ok THEN SeekSucceeded(s0, adjustBy)
                                       ELSE SeekFailedBookkeeping(s0, p)
                           /\ ctl' = [ctl EXCEPT
                                        !.pc = IF ok THEN "seeked" ELSE "failed",
                                        !.elapsed = elapsed,
                                        !.adjustBy = <<adjustBy>>,
                                        !.position = <<position>>,
                                        !.issued = <<Round3(position)>>]
    /\ UNCHANGED <<W, otherVars, progVars, daemon>>

\* the slave's daemon moves on to the next song of the playlist, the first
\* one after the last
book_song ==
    /\ daemon' = [daemon EXCEPT !.song = (daemon.song % NumSongs) + 1]
    /\ UNCHANGED <<W, otherVars, progVars, slave, ctl>>

SpecBook == SpecBookInit /\ [][book_reseek \/ book_song]_vars

----------------------------------------------------------------------------
(* SpecFail: the replicator for one slave (syncAll, the master's daemon)   *)
(* with the except clause of _reseek_player, which calls syncPlaylists     *)
(* from the Seeker's thread.  An exception that leaves the clause ends     *)
(* that thread (ret = "raised"); the model stops there.                    *)

\* the slave has had one seek of the song succeed
SpecFailInit ==
    /\ W = AveragedList(0)
    /\ StatProgInit
    /\ slave = SeekSucceeded(SongReset(InitSlave(<<>>, 2000), 1), 2000)
    /\ ctl = [pc |-> "rp", pings |-> InitSlave(<<>>, 2000).pings,
              elapsed |-> 60000000, adjustBy |-> <<>>, position |-> <<>>,
              issued |-> <<>>]
    /\ daemon = [song |-> 1, drift |-> 10000]
    /\ maxDifference = <<>>
    /\ ArchIdle
    /\ ReplInit
    /\ StartIdle

\* lines 1027-1040: the except clause of _reseek_player after slave.seek
\* raised while the master plays: slave.playlistVersion = None,
\* self.syncPlaylists(), slave.currentSongAdjustments.clear(),
\* slave.checkConnection().  drop: the slave's connection is gone, so that
\* checkConnection (line 620) reconnects and connect() resets the
\* attributes; otherwise the connection is still up (a ProtocolError, a
\* timeout).
reseek_failed ==
    /\ call.ret # "raised"
    /\ call.kind # "none"
    /\ master.state = "play"
    /\ \E drop \in BOOLEAN, p \in PingVals :
          LET c0 == [client EXCEPT !.playlistVersion = 0]
              w == SyncPlaylists(World(IF drop THEN Reconnected(c0) ELSE c0),
                                 1, "none")
          IN  /\ Len(w.d.queue) <= MaxQueue
              /\ mpd' = w.d
              /\ client' = w.c
              /\ call' = [kind |-> "reseek_player", sent |-> w.sent,
                          ret |-> IF w.exc THEN "raised" ELSE "False",
                          tries |-> w.tries, quiet |-> 0]
              /\ slave' = IF w.exc THEN slave
                          ELSE SeekFailedBookkeeping(slave, p)
    /\ UNCHANGED <<W, progVars, ctl, daemon, archVars, maxDifference, master,
                   track, proc>>

SpecFail == SpecFailInit /\ [][syncAll \/ master_changes \/ reseek_failed]_vars

\* C33 as the spec states it: when the except clause of a failed seek has
\* been run for the slave, the replication it made was a full one (no
\* addid, no delete) that left the slave marked as synced at the master's
\* version with the master's queue, the clause ran to its end, and
\* currentSongAdjustments is empty.
C33_FullResyncForced ==
    call.kind = "reseek_player" =>
        /\ call.ret # "raised"
        /\ \A i \in 1..Len(call.sent) : call.sent[i] \notin {"addid", "delete"}
        /\ client.hasBeenSynced
        /\ client.playlistVersion = master.version
        /\ mpd.queue = master.queue
        /\ slave.currentSongAdjustments.items = <<>>


----------------------------------------------------------------------------
(* Claims about the incremental replication, under SpecRepl *)

\* a call of syncPlaylists for a slave that was synced, whose queue was the
\* master's queue of the version recorded for it, has returned, and no
\* ProtocolError cut it short after the addid commands (line 687)
Incremental ==
    /\ client.hasBeenSynced
    /\ mpd.queue = client.seen
    /\ call'.kind = "syncPlaylists"
    /\ call'.ret # "raised"
    /\ ~(/\ \E i \in 1..Len(call'.sent) : call'.sent[i] = "addid"
         /\ client'.playlistVersion # master.version)

\* C34 as the spec states it: after the incremental replication the
\* slave's queue is as long as the master's, whatever the master's queue
\* has become since the version recorded for the slave.
C34_LengthsEqual ==
    [][Incremental => Len(mpd'.queue) = Len(master.queue)]_vars

\* C35 as the spec states it: after an incremental replication that sent
\* an addid for each changed position and recorded the master's version,
\* the slave's queue holds the master's songs in the master's order.
C35_SameEntries ==
    [][(/\ Incremental
        /\ \E i \in 1..Len(call'.sent) : call'.sent[i] = "addid"
        /\ client'.playlistVersion = master.version) =>
            mpd'.queue = master.queue]_vars


----------------------------------------------------------------------------
(* SpecConn: the two connections to the master's daemon.  main constructs  *)
(* the Master from the -m argument and the -p password and connects it;    *)
(* startSeeker constructs the Seeker from the Master and connects it.  An  *)
(* argument is the sequence of the parts of HOST[:PORT][/LATENCY]; the -p   *)
(* password is none or one of two.                                         *)

DEFAULT_PORT == 6600

\* the -m arguments: a host alone, with a port (the default one or
\* another), with a latency, with both
MasterArgs ==
    UNION {{<<h>>, <<h, "/", "100">>} \cup
           UNION {{<<h, ":", p>>, <<h, ":", p, "/", "100">>} : p \in {"6600", "6601"}}
             : h \in {"m", "n"}}

\* str.split at the one separator sep of s: the parts before and after it
Split(s, sep) ==
    LET i == CHOOSE k \in 1..Len(s) : s[k] = sep
    IN  <<SubSeq(s, 1, i - 1), SubSeq(s, i + 1, Len(s))>>

\* lines 162-185: Client.__init__(host, port, password): the latency is
\* split off the host, then the port, which replaces the port given.  The
\* port attribute holds the int given or the str split off.
Client(host, port, password) ==
    LET hasLatency == \E k \in 1..Len(host) : host[k] = "/"
        h1 == IF hasLatency THEN Split(host, "/")[1] ELSE host
        hasPort == \E k \in 1..Len(h1) : h1[k] = ":"
        h2 == IF hasPort THEN Split(h1, ":")[1] ELSE h1
    IN  [host |-> h2,
         port |-> IF hasPort THEN <<"str", Split(h1, ":")[2][1]>>
                  ELSE <<"int", port>>,
         password |-> password,
         latency |-> IF hasLatency THEN Split(host, "/")[2] ELSE <<>>]

\* lines 260-272: connect() opens a connection to self.host at the port
\* number self.port stands for, and sends self.password when there is one
connect(c) ==
    [host |-> c.host,
     port |-> IF c.port[1] = "int" THEN c.port[2]
              ELSE IF c.port[2] = "6600" THEN 6600 ELSE 6601,
     password |-> c.password]

SpecConnInit ==
    /\ W = AveragedList(0)
    /\ StatProgInit
    /\ CtlIdle
    /\ maxDifference = <<>>
    /\ ReplIdle
    /\ ArchIdle
    /\ track = [scenario |-> "none", iteration |-> 0]
    /\ \E a \in MasterArgs, pw \in {<<>>, <<"a">>, <<"b">>} :
          proc = [pc |-> "main", arg |-> a, password |-> pw, master |-> <<>>,
                  seeker |-> <<>>, primary |-> <<>>, dedicated |-> <<>>]

\* lines 1316-1319: master = Master(host=args.master,
\* password=args.password, ...); master.connect()
main_master ==
    /\ proc.pc = "main"
    /\ LET m == Client(proc.arg, DEFAULT_PORT, proc.password)
       IN  proc' = [proc EXCEPT !.pc = "connected", !.master = <<m>>,
                                !.primary = <<connect(m)>>]
    /\ UNCHANGED <<W, progVars, ctlVars, maxDifference, replVars, archVars, track>>

\* lines 857 and 894-895: self.seeker = Seeker(self), whose __init__ calls
\* Client.__init__(master.host, logger=master.log)
startSeeker ==
    /\ proc.pc = "connected"
    /\ proc' = [proc EXCEPT
          !.pc = "seeker",
          !.seeker = <<Client(proc.master[1].host, DEFAULT_PORT, <<>>)>>]
    /\ UNCHANGED <<W, progVars, ctlVars, maxDifference, replVars, archVars, track>>

\* line 858: self.seeker.connect()
startSeeker_seekerConnect ==
    /\ proc.pc = "seeker"
    /\ proc' = [proc EXCEPT !.pc = "seeking",
                            !.dedicated = <<connect(proc.seeker[1])>>]
    /\ UNCHANGED <<W, progVars, ctlVars, maxDifference, replVars, archVars, track>>

SpecConn ==
    SpecConnInit /\ [][main_master \/ startSeeker \/ startSeeker_seekerConnect]_vars

\* C36 as the spec states it: the Seeker's connection is to the host and
\* the port of the Master's connection, with the Master's password.
C36_SameDaemon ==
    proc.pc = "seeking" => proc.dedicated = proc.primary


----------------------------------------------------------------------------
(* A claim about a slave that cannot be reconnected, under Spec *)

\* C37 as the spec states it: when the main thread, in its idle loop,
\* leaves the check of a slave's connection in syncPlaylists (lines
\* 620-623) and slaves remain after that one, the main thread is alive and
\* still in that call of syncPlaylists, which goes on to the slaves that
\* remain.
C37_FailureStaysLocal ==
    [][(/\ At(0, "spl_check")
        /\ stack[0][1].pc = "idle"
        /\ Top(stack[0]).s < NumSlaves
        /\ stack'[0] # stack[0]) =>
            /\ tstat'[0] = "alive"
            /\ Len(stack'[0]) >= Len(stack[0])
            /\ Top(stack'[0]).pc \in {"spl_check", "spl_full", "spl_incr"}]_vars

=============================================================================
